---- MODULE Spec2Model ----
(***************************************************************************)
(* BurnBar usage-monitoring engine: the rate-limit client                  *)
(* (api_client.py), the poll scheduler and refresh logic (app.py) and the  *)
(* overlay's update queue and flash state (overlay.py), the token expiry   *)
(* check and the import of Claude Code's credential cache (oauth.py,       *)
(* app.py, settings_dialog.py).                                            *)
(*                                                                         *)
(* Numbers: a utilization u in [0,1] is held in thousandths (970 = 0.97),  *)
(* a remaining percentage in tenths of a percent (51 = 5.1%).  The token   *)
(* limits of the model divide 1000, so every percentage is exact.          *)
(***************************************************************************)
EXTENDS Integers, Sequences, FiniteSets, TLC

VARIABLES
    \* ---- AnthropicClient._check_usage_api_key, one call in progress ----
    api_client,      \* [api_key, endpoint_mode, auth_mode, access_token]
    api_net,         \* what the network answers: [count_tokens, messages]
    api_pc,          \* "start" | "count_tokens" | "messages" | "tail" | "done"
    api_last_error,  \* local last_error (NoError = None)
    api_out,         \* [raised, err, usage]: how the call ended
    api_calls        \* the endpoints requested so far, in order

VARIABLES
    \* ---- BurnBarApp ----
    config,          \* Config: the fields the poll threads read and write
    usage,           \* BurnBarApp.usage
    error,           \* BurnBarApp.error (None, or str(exc))
    running,         \* BurnBarApp.running
    now,             \* time.time(), epoch seconds
    \* ---- threads ----
    main,            \* the main thread: run() and UsageOverlay.run_mainloop
    th,              \* th[0]: the poll thread (_poll_loop); th[i], i >= 1:
                     \* the threads _on_refresh started (_refresh)
    \* ---- UsageOverlay ----
    ov_root,         \* self._root is a Tk (TRUE) or None (FALSE)
    ov_window,       \* the Tk window: "none" | "alive" | "destroyed"
    ov_ready,        \* self._ready.is_set()
    ov_canvas,       \* self._canvas is a Canvas (TRUE) or None (FALSE)
    ov_queue,        \* self._queue: the callables posted, oldest first
    last_draw,       \* self._last_draw
    flash_bars,      \* self._flash_bars
    flash_visible,   \* self._flash_visible
    flash_critical,  \* self._flash_critical
    flash_dismissed, \* self._flash_dismissed
    ov_timers,       \* pending root.after(ms, self._flash_tick) callbacks:
                     \* the delay of each, in the order they were set
    \* ---- history ----
    last_poll,       \* the _refresh call that ended last
    stop_pc,         \* where the poll thread was when running became false
    stop_sleeps,     \* sleep increments the poll thread took after that
    applied          \* what the tk thread ran last on the overlay's state
                     \* (a posted callable, a timer or menu callback), and
                     \* the flash state it found

VARIABLES
    \* ---- credentials ----
    creds_file,      \* the file ~/.claude/.credentials.json
    ret,             \* what the last call of a credential function gave
    dialog           \* the settings dialog: whether it is open, the Config
                     \* it was opened on, and what its last button did

apiVars == <<api_client, api_net, api_pc, api_last_error, api_out, api_calls>>
appVars == <<config, usage, error, running, now>>
ovVars == <<ov_root, ov_window, ov_ready, ov_canvas, ov_queue, last_draw,
            flash_bars, flash_visible, flash_critical, flash_dismissed,
            ov_timers>>

histVars == <<last_poll, stop_pc, stop_sleeps, applied>>
credVars == <<creds_file, ret, dialog>>

vars == <<apiVars, appVars, main, th, ovVars, histVars, credVars>>

(***************************************************************************)
(* Values                                                                  *)
(***************************************************************************)
None == [type |-> "None"]

\* An exception value: the class and str(exc).  status is the number
\* formatted into the message, 0 when the message has none.
Exc(cls, msg, status) == [cls |-> cls, msg |-> msg, status |-> status]
ApiError(msg) == Exc("ApiError", msg, 0)
NoError == Exc("", "", 0)

\* A header: absent, present but not a number, or a number.
Absent == [k |-> "absent", v |-> 0]
Bad == [k |-> "bad", v |-> 0]
Num(n) == [k |-> "num", v |-> n]

\* _hint: int(headers.get(key, "0")), 0 on ValueError / TypeError.
hint(h) == IF h.k = "num" THEN h.v ELSE 0

\* _hfloat: float(headers.get(key, "0")), 0.0 on ValueError / TypeError
\* (in thousandths).
hfloat(h) == IF h.k = "num" THEN h.v ELSE 0

Max2(a, b) == IF a >= b THEN a ELSE b
Min2(a, b) == IF a <= b THEN a ELSE b

(***************************************************************************)
(* UsageInfo / UnifiedUsageInfo                                            *)
(***************************************************************************)
UsageInfo(tr, tl, rr, rl, reset) ==
    [type |-> "UsageInfo", tokens_remaining |-> tr, tokens_limit |-> tl,
     requests_remaining |-> rr, requests_limit |-> rl, reset_time |-> reset]

UnifiedUsageInfo(u5, u7, us, r5, r7, rs) ==
    [type |-> "UnifiedUsageInfo", utilization_5h |-> u5, utilization_7d |-> u7,
     utilization_7d_sonnet |-> us, reset_5h |-> r5, reset_7d |-> r7,
     reset_7d_sonnet |-> rs]

\* A percentage without the clamp to [0, 100].
percentage_unclamped(info) ==
    IF info.type = "UsageInfo"
    THEN IF info.tokens_limit <= 0
         THEN 1000
         ELSE (info.tokens_remaining * 1000) \div info.tokens_limit
    ELSE 1000 - Max2(info.utilization_5h,
                     Max2(info.utilization_7d, info.utilization_7d_sonnet))

\* UsageInfo.percentage and UnifiedUsageInfo.percentage, in tenths of a percent.
percentage(info) ==
    IF info.type = "UsageInfo"
    THEN IF info.tokens_limit <= 0
         THEN 1000
         ELSE Max2(0, Min2(1000,
                  (info.tokens_remaining * 1000) \div info.tokens_limit))
    ELSE LET used == Max2(info.utilization_5h,
                          Max2(info.utilization_7d, info.utilization_7d_sonnet))
         IN  Max2(0, Min2(1000, 1000 - used))

\* UnifiedUsageInfo.utilizations
utilizations(info) ==
    <<info.utilization_5h, info.utilization_7d, info.utilization_7d_sonnet>>

(***************************************************************************)
(* HTTP                                                                    *)
(***************************************************************************)
\* What one requests.post does: a response, or one of the two transport
\* exceptions the client handles.
Response(status, body, tl, tr, u5) ==
    [kind |-> "response", status |-> status, body |-> body,
     tokens_limit |-> tl, tokens_remaining |-> tr,
     requests_limit |-> Num(50), requests_remaining |-> Num(7),
     tokens_reset |-> "2026-01-01T00:00:00Z",
     u5h |-> u5, u7d |-> Num(100), u7d_sonnet |-> Num(20),
     r5h |-> Num(1700000000), r7d |-> Num(1700500000), r7d_sonnet |-> Absent]

ConnectionError == [kind |-> "ConnectionError"]
Timeout == [kind |-> "Timeout"]

\* _check_status, the 400 branch.  The body is what the response's JSON has
\* at error.message: "" when the body is not JSON, has no such key or the
\* lookup raised inside the try; "billing" a string with a billing / credit
\* phrase; "other" another string; "non_string" a value that is not a
\* string (null, a number), on which msg.lower() raises outside the try.
check_status_400(resp) ==
    IF resp.body = "non_string"
    THEN Exc("AttributeError",
             "'NoneType' object has no attribute 'lower'", 0)
    ELSE IF resp.body = "billing"
    THEN ApiError("No API credits -- check Plans & Billing")
    ELSE IF resp.body # "" THEN ApiError("Bad request: <msg>")
         ELSE ApiError("Bad request")

\* _check_status: the exception raised for the response, NoError when it
\* returns.
check_status(auth_mode, resp) ==
    CASE resp.status = 401 ->
           ApiError(IF auth_mode # "oauth" THEN "Invalid API key"
                    ELSE "OAuth token invalid or expired")
      [] resp.status = 403 ->
           ApiError(IF auth_mode # "oauth" THEN "API key lacks permission"
                    ELSE "OAuth token lacks permission")
      [] resp.status = 400 -> check_status_400(resp)
      [] resp.status = 429 -> NoError
      [] resp.status >= 500 ->
           Exc("ApiError", "Anthropic server error (<status>)", resp.status)
      [] resp.status \notin {200, 429} ->
           Exc("ApiError",
               IF resp.body \notin {"", "non_string"} THEN "Unexpected status <status>: <body>"
               ELSE "Unexpected status <status>", resp.status)
      [] OTHER -> NoError

\* _call_count_tokens / _call_messages_minimal: the request, the transport
\* errors turned into ApiError, then _check_status.
\* Returns [raised, err, resp].
call_endpoint(auth_mode, answer) ==
    CASE answer.kind = "ConnectionError" ->
           [raised |-> TRUE, resp |-> None,
            err |-> ApiError("Network error -- check your connection")]
      [] answer.kind = "Timeout" ->
           [raised |-> TRUE, resp |-> None, err |-> ApiError("Request timed out")]
      [] OTHER ->
           LET e == check_status(auth_mode, answer)
           IN  [raised |-> e # NoError, err |-> e, resp |-> answer]

\* _has_ratelimit_headers
has_ratelimit_headers(resp) == resp.tokens_limit.k # "absent"

\* _has_unified_headers
has_unified_headers(resp) == resp.u5h.k # "absent"

\* A parse that takes the remaining counts from the headers whatever the status.
parse_headers_ignores_status(resp) ==
    IF hint(resp.tokens_limit) = 0
    THEN [raised |-> TRUE, usage |-> None,
          err |-> ApiError("Rate-limit headers present but token limit is 0")]
    ELSE [raised |-> FALSE, err |-> NoError,
          usage |-> UsageInfo(hint(resp.tokens_remaining),
                              hint(resp.tokens_limit),
                              hint(resp.requests_remaining),
                              hint(resp.requests_limit), resp.tokens_reset)]

\* _parse_headers: [raised, err, usage].
parse_headers(resp) ==
    LET exhausted == resp.status = 429
        tokens_limit == hint(resp.tokens_limit)
        tokens_remaining == IF exhausted THEN 0 ELSE hint(resp.tokens_remaining)
        requests_limit == hint(resp.requests_limit)
        requests_remaining ==
            IF exhausted THEN 0 ELSE hint(resp.requests_remaining)
    IN  IF tokens_limit = 0
        THEN [raised |-> TRUE, usage |-> None,
              err |-> ApiError("Rate-limit headers present but token limit is 0")]
        ELSE [raised |-> FALSE, err |-> NoError,
              usage |-> UsageInfo(tokens_remaining, tokens_limit,
                                  requests_remaining, requests_limit,
                                  resp.tokens_reset)]

\* A parse that takes a 429 as the exhaustion of all three windows.
parse_unified_headers_all_exhausted(resp) ==
    LET exhausted == resp.status = 429
        full(u) == IF exhausted THEN Max2(u, 1000) ELSE u
    IN  UnifiedUsageInfo(full(hfloat(resp.u5h)), full(hfloat(resp.u7d)),
                         full(hfloat(resp.u7d_sonnet)),
                         hint(resp.r5h), hint(resp.r7d), hint(resp.r7d_sonnet))

\* _parse_unified_headers
parse_unified_headers(resp) ==
    LET exhausted == resp.status = 429
        u5 == hfloat(resp.u5h)
    IN  UnifiedUsageInfo(IF exhausted THEN Max2(u5, 1000) ELSE u5,
                         hfloat(resp.u7d), hfloat(resp.u7d_sonnet),
                         hint(resp.r5h), hint(resp.r7d), hint(resp.r7d_sonnet))

(***************************************************************************)
(* AnthropicClient.check_usage                                             *)
(***************************************************************************)
\* The frame of one check_usage call: where it is, its local last_error,
\* how it ended (out, set when pc = "done") and the requests it issued.
ApiFrame(pc, last_error, out, calls) ==
    [pc |-> pc, last_error |-> last_error, out |-> out, calls |-> calls]

Returned(info) == [raised |-> FALSE, err |-> NoError, usage |-> info]
Raised(err) == [raised |-> TRUE, err |-> err, usage |-> None]
Pending == [raised |-> FALSE, err |-> NoError, usage |-> None]

ApiFrame0 == ApiFrame("start", NoError, Pending, <<>>)

\* check_usage: the dispatch on auth_mode, and the guards that open
\* _check_usage_api_key and _check_usage_oauth.
check_usage_enter(f, client) ==
    IF client.auth_mode = "oauth"
    THEN IF client.access_token = ""
         THEN ApiFrame("done", f.last_error,
                       Raised(ApiError("OAuth token not configured")), f.calls)
         ELSE ApiFrame("oauth", f.last_error, f.out, f.calls)
    ELSE IF client.api_key = ""
         THEN ApiFrame("done", f.last_error,
                       Raised(ApiError("API key not configured")), f.calls)
         ELSE ApiFrame("count_tokens", f.last_error, f.out, f.calls)

\* The body of one try block: the call, then the parse when the response
\* has the rate-limit headers.  out.raised: an exception left the try body
\* (err.cls says whether "except ApiError" catches it); usage = None
\* without an error: the response had no headers.
try_endpoint(client, answer) ==
    LET c == call_endpoint(client.auth_mode, answer)
    IN  IF c.raised THEN Raised(c.err)
        ELSE IF has_ratelimit_headers(c.resp)
             THEN LET p == parse_headers(c.resp)
                  IN  IF p.raised THEN Raised(p.err) ELSE Returned(p.usage)
             ELSE Pending

\* A count_tokens block that ends the call in count_tokens mode only on an
\* error, and otherwise hands over as in both mode.
count_tokens_block_falls_back(f, client, net) ==
    IF client.endpoint_mode \in {"both", "count_tokens"}
    THEN LET t == try_endpoint(client, net.count_tokens)
             calls == Append(f.calls, "count_tokens")
             both == [client EXCEPT !.endpoint_mode = "both"]
         IN  IF t.raised
             THEN IF t.err.cls # "ApiError"
                  THEN ApiFrame("done", f.last_error, t, calls)
                  ELSE IF client.endpoint_mode = "count_tokens"
                  THEN ApiFrame("done", t.err, t, calls)
                  ELSE ApiFrame("messages", t.err, f.out, calls)
             ELSE IF t.usage # None
                  THEN ApiFrame("done", f.last_error, t, calls)
                  ELSE IF client.endpoint_mode = "count_tokens"
                       THEN LET m == try_endpoint(both, net.messages)
                            IN  ApiFrame(IF m.raised \/ m.usage # None
                                         THEN "done" ELSE "tail",
                                         f.last_error, m,
                                         Append(calls, "messages"))
                       ELSE ApiFrame("messages", f.last_error, f.out, calls)
    ELSE ApiFrame("messages", f.last_error, f.out, f.calls)

\* A count_tokens block that in both mode goes on to messages whatever
\* count_tokens gave.
count_tokens_block_goes_on(f, client, net) ==
    IF client.endpoint_mode \in {"both", "count_tokens"}
    THEN LET t == try_endpoint(client, net.count_tokens)
             calls == Append(f.calls, "count_tokens")
         IN  IF t.raised
             THEN IF t.err.cls # "ApiError"
                  THEN ApiFrame("done", f.last_error, t, calls)
                  ELSE IF client.endpoint_mode = "count_tokens"
                  THEN ApiFrame("done", t.err, t, calls)
                  ELSE ApiFrame("messages", t.err, f.out, calls)
             ELSE IF t.usage # None /\ client.endpoint_mode = "count_tokens"
                  THEN ApiFrame("done", f.last_error, t, calls)
                  ELSE ApiFrame("messages", f.last_error, f.out, calls)
    ELSE ApiFrame("messages", f.last_error, f.out, f.calls)

\* _check_usage_api_key, the count_tokens block.
count_tokens_block(f, client, net) ==
    IF client.endpoint_mode \in {"both", "count_tokens"}
    THEN LET t == try_endpoint(client, net.count_tokens)
             calls == Append(f.calls, "count_tokens")
         IN  IF t.raised
             THEN IF t.err.cls # "ApiError"
                  THEN ApiFrame("done", f.last_error, t, calls)
                  ELSE IF client.endpoint_mode = "count_tokens"
                  THEN ApiFrame("done", t.err, t, calls)
                  ELSE ApiFrame("messages", t.err, f.out, calls)
             ELSE IF t.usage # None
                  THEN ApiFrame("done", f.last_error, t, calls)
                  ELSE ApiFrame("messages", f.last_error, f.out, calls)
    ELSE ApiFrame("messages", f.last_error, f.out, f.calls)

\* A messages block that does not parse the response it received.
messages_block_no_parse(f, client, net) ==
    IF client.endpoint_mode \in {"both", "messages"}
    THEN LET c == call_endpoint(client.auth_mode, net.messages)
             calls == Append(f.calls, "messages")
         IN  IF c.raised
             THEN ApiFrame("done",
                           IF c.err.cls = "ApiError" THEN c.err ELSE f.last_error,
                           Raised(c.err), calls)
             ELSE ApiFrame("tail", f.last_error, f.out, calls)
    ELSE ApiFrame("tail", f.last_error, f.out, f.calls)

\* _check_usage_api_key, the messages block.
messages_block(f, client, net) ==
    IF client.endpoint_mode \in {"both", "messages"}
    THEN LET t == try_endpoint(client, net.messages)
             calls == Append(f.calls, "messages")
         IN  IF t.raised
             THEN ApiFrame("done",
                           IF t.err.cls = "ApiError" THEN t.err ELSE f.last_error,
                           t, calls)
             ELSE IF t.usage # None
                  THEN ApiFrame("done", f.last_error, t, calls)
                  ELSE ApiFrame("tail", f.last_error, f.out, calls)
    ELSE ApiFrame("tail", f.last_error, f.out, f.calls)

\* A last line that forgets last_error.
raise_last_no_headers_only(f) ==
    ApiFrame("done", f.last_error,
             Raised(ApiError("API did not return rate-limit headers")), f.calls)

\* _check_usage_api_key, the last line:
\* raise last_error or ApiError("API did not return rate-limit headers").
raise_last(f) ==
    ApiFrame("done", f.last_error,
             Raised(IF f.last_error # NoError THEN f.last_error
                    ELSE ApiError("API did not return rate-limit headers")),
             f.calls)

\* An OAuth call that obeys endpoint_mode as the API-key call does.
check_usage_oauth_by_endpoint_mode(f, client, net) ==
    count_tokens_block(f, client, net)

\* _check_usage_oauth after its guard: one messages request.
check_usage_oauth(f, client, net) ==
    LET c == call_endpoint(client.auth_mode, net.messages)
        calls == Append(f.calls, "messages")
    IN  IF c.raised THEN ApiFrame("done", f.last_error, Raised(c.err), calls)
        ELSE IF has_unified_headers(c.resp)
        THEN ApiFrame("done", f.last_error,
                      Returned(parse_unified_headers(c.resp)), calls)
        ELSE IF has_ratelimit_headers(c.resp)
        THEN LET p == parse_headers(c.resp)
             IN  IF p.raised
                 THEN ApiFrame("done", f.last_error, Raised(p.err), calls)
                 ELSE ApiFrame("done", f.last_error,
                          Returned(UnifiedUsageInfo(
                              1000 - percentage(p.usage), 0, 0, 0, 0, 0)),
                          calls)
        ELSE ApiFrame("done", f.last_error,
                 Raised(ApiError("API did not return usage headers (OAuth)")),
                 calls)

\* One step of a check_usage call.
api_step(f, client, net) ==
    CASE f.pc = "start" -> check_usage_enter(f, client)
      [] f.pc = "oauth" -> check_usage_oauth(f, client, net)
      [] f.pc = "count_tokens" -> count_tokens_block(f, client, net)
      [] f.pc = "messages" -> messages_block(f, client, net)
      [] f.pc = "tail" -> raise_last(f)
      [] OTHER -> f

\* check_usage run to its end: the longest path has four steps.
check_usage(client, net) ==
    api_step(api_step(api_step(api_step(ApiFrame0, client, net),
                               client, net), client, net), client, net)

\* AnthropicClient(...)
AnthropicClient(api_key, endpoint_mode, auth_mode, access_token) ==
    [api_key |-> api_key, endpoint_mode |-> endpoint_mode,
     auth_mode |-> auth_mode, access_token |-> access_token]

(***************************************************************************)
(* Config and the helpers of BurnBarApp                                    *)
(***************************************************************************)
EXPIRY_BUFFER_SECONDS == 300

\* A check without the buffer.
is_token_expired_at_expiry(expires_at, t) ==
    IF expires_at <= 0 THEN TRUE ELSE t >= expires_at

\* Config._data, the keys read by the engine (DEFAULTS for the rest).
Config(auth_mode, api_key, access, refresh, expires_at, interval) ==
    [auth_mode |-> auth_mode, api_key |-> api_key, endpoint_mode |-> "both",
     poll_interval_seconds |-> interval,
     yellow_threshold_pct |-> 25, red_threshold_pct |-> 5,
     critical_threshold_pct |-> 3,
     oauth_access_token |-> access, oauth_refresh_token |-> refresh,
     oauth_expires_at |-> expires_at]

\* Config.is_oauth_mode, Config.has_oauth_token
is_oauth_mode(c) == c.auth_mode = "oauth"
has_oauth_token(c) == c.oauth_access_token # ""

\* BurnBarApp._has_credentials
has_credentials(c) ==
    IF is_oauth_mode(c) THEN has_oauth_token(c) ELSE c.api_key # ""

\* oauth.is_token_expired
is_token_expired(expires_at, t) ==
    IF expires_at <= 0 THEN TRUE ELSE t >= expires_at - EXPIRY_BUFFER_SECONDS

\* str(exc)[:80] (every message of the model is shorter than 80 characters)
str_exc(e) == [msg |-> e.msg, status |-> e.status]

\* BurnBarApp._get_status_lines: the kind of its first line, "error" for
\* "Error: ...", "not_set" for "... not set -- open Settings",
\* "connecting", or "capacity" for the remaining percentage.
get_status_lines(e, u, c) ==
    IF e # None /\ e.msg # ""
    THEN "error"
    ELSE IF u = None
         THEN IF ~has_credentials(c) THEN "not_set" ELSE "connecting"
         ELSE "capacity"

\* A classification without the 0.1 added to the red threshold.
flash_state_without_margin(pct, c) ==
    IF pct <= c.critical_threshold_pct * 10
    THEN [active |-> TRUE, critical |-> TRUE]
    ELSE IF pct <= c.red_threshold_pct * 10
         THEN [active |-> TRUE, critical |-> FALSE]
         ELSE [active |-> FALSE, critical |-> FALSE]

\* _refresh, "Determine flash state": [active, critical] for pct (tenths of
\* a percent) and the thresholds of Config (percent).
flash_state(pct, c) ==
    IF pct <= c.critical_threshold_pct * 10
    THEN [active |-> TRUE, critical |-> TRUE]
    ELSE IF pct <= c.red_threshold_pct * 10 + 1
         THEN [active |-> TRUE, critical |-> FALSE]
         ELSE [active |-> FALSE, critical |-> FALSE]

(***************************************************************************)
(* The credential cache of Claude Code and its import                      *)
(***************************************************************************)
\* A non-negative integer below 10^15 as five limbs in base 1000, most
\* significant first: expiresAt is in milliseconds, near 1.8 * 10^12.
Limbs(a, b, c, d, e) == <<a, b, c, d, e>>

\* The literal 1e12.
E12 == Limbs(1, 0, 0, 0, 0)

\* x > y on limbs.
Greater(x, y) ==
    \E i \in 1..5 : /\ x[i] > y[i]
                    /\ \A j \in 1..(i - 1) : x[j] = y[j]

\* int(x / 1000) on limbs.
DivThousand(x) == Limbs(0, x[1], x[2], x[3], x[4])

\* The integer the limbs stand for, as Config holds it: values below
\* 2 * 10^9 as an integer of the model, larger ones as their limbs.
Stored(x) ==
    IF x[1] = 0 /\ x[2] <= 1
    THEN x[2] * 1000000000 + x[3] * 1000000 + x[4] * 1000 + x[5]
    ELSE x

\* A conversion that takes 1e12 itself for milliseconds.
import_expires_at_from_1e12(x) ==
    IF Greater(x, E12) \/ x = E12 THEN DivThousand(x) ELSE x

\* app.py lines 99-101, settings_dialog.py lines 256-258:
\* if expires_at > 1e12: expires_at = int(expires_at / 1000); int(expires_at)
import_expires_at(x) ==
    IF Greater(x, E12) THEN DivThousand(x) ELSE x

\* A member of a JSON object: absent, or its value (a string, a number in
\* limbs, null).
JAbsent == [k |-> "absent", v |-> ""]
JNull == [k |-> "null", v |-> ""]
JStr(v) == [k |-> "str", v |-> v]
JNum(x) == [k |-> "num", v |-> x]

\* The value the cache holds for one provider.  j: "object" a JSON object
\* with at least one member; "falsy" null, 0, "", [] or {}; "number" a
\* nonzero number or true; "text" a string or list in which Python's
\* 'in' finds "accessToken"; "text_other" a string or list without it.
Entry(j, accessToken, refreshToken, expiresAt) ==
    [j |-> j, accessToken |-> accessToken, refreshToken |-> refreshToken,
     expiresAt |-> expiresAt]

Scalar(j) == Entry(j, JAbsent, JAbsent, JAbsent)

\* The file: missing; unreadable (open raises OSError); not text (the
\* bytes are not valid UTF-8); malformed (not JSON); or JSON, whose top
\* level is not an object, has a "default" member, has "accessToken"
\* itself ("flat"), has a first object member with "accessToken"
\* ("provider"), or has none of these ("other").  With a "default" member
\* the entry is that member, also when the top level has "accessToken" as
\* well ("default_and_flat") or another member is an object with
\* "accessToken" ("default_and_provider").
NoFile(kind) == [kind |-> kind, shape |-> "", entry |-> Scalar("falsy")]
JsonFile(shape, entry) == [kind |-> "json", shape |-> shape, entry |-> entry]

\* What a call gave: it returned value, or raised err.
Ret(fn, value) == [fn |-> fn, raised |-> FALSE, err |-> NoError, value |-> value]
RetRaised(fn, err) == [fn |-> fn, raised |-> TRUE, err |-> err, value |-> None]

\* A call recorded in ret: the function, its arguments and what it gave.
Call(fn, args, out) == [fn |-> fn, args |-> args, out |-> out]

NoCall == Call("", None, None)

\* load_claude_code_credentials
load_claude_code_credentials(file) ==
    LET fn == "load_claude_code_credentials"
    IN  CASE file.kind \in {"missing", "unreadable", "malformed"} ->
               Ret(fn, None)
          [] file.kind = "not_text" ->
               RetRaised(fn, Exc("UnicodeDecodeError",
                                 "'utf-8' codec can't decode byte", 0))
          [] file.shape \in {"not_object", "other"} -> Ret(fn, None)
          [] file.entry.j = "falsy" -> Ret(fn, None)
          [] file.entry.j = "number" ->
               RetRaised(fn, Exc("TypeError",
                                 "argument of type 'int' is not iterable", 0))
          [] file.entry.j = "text_other" -> Ret(fn, None)
          [] file.entry.j = "text" ->
               RetRaised(fn, Exc("AttributeError",
                                 "'str' object has no attribute 'get'", 0))
          [] file.entry.accessToken.k = "absent" -> Ret(fn, None)
          [] OTHER -> Ret(fn, file.entry)

\* creds.get(key, default) for a string member.
get(member, default) ==
    CASE member.k = "absent" -> default
      [] member.k = "null" -> None
      [] OTHER -> member.v

\* app.py lines 96-101, settings_dialog.py lines 254-258: the three writes
\* to Config.  [raised, err, config, expires_at], expires_at the local
\* after the conversion.
store_credentials(c, creds) ==
    LET c1 == [c EXCEPT !.oauth_access_token = get(creds.accessToken, ""),
                        !.oauth_refresh_token = get(creds.refreshToken, "")]
        expires_at == IF creds.expiresAt.k = "absent" THEN Limbs(0, 0, 0, 0, 0)
                      ELSE creds.expiresAt.v
    IN  IF creds.expiresAt.k \in {"null", "str"}
        THEN [raised |-> TRUE, config |-> c1, expires_at |-> None,
              err |-> Exc("TypeError",
                          "'>' not supported between instances", 0)]
        ELSE LET converted == import_expires_at(expires_at)
             IN  [raised |-> FALSE, err |-> NoError, expires_at |-> converted,
                  config |-> [c1 EXCEPT !.oauth_expires_at = Stored(converted)]]

\* BurnBarApp._try_auto_import_claude_code:
\* [raised, err, config, found, expires_at].
try_auto_import_claude_code(c, file) ==
    LET creds == load_claude_code_credentials(file)
    IN  IF creds.raised
        THEN [raised |-> TRUE, err |-> creds.err, config |-> c,
              found |-> FALSE, expires_at |-> None]
        ELSE IF creds.value = None
        THEN [raised |-> FALSE, err |-> NoError, config |-> c,
              found |-> FALSE, expires_at |-> None]
        ELSE LET w == store_credentials(c, creds.value)
             IN  [raised |-> w.raised, err |-> w.err, config |-> w.config,
                  found |-> TRUE, expires_at |-> w.expires_at]

\* SettingsDialog._import_claude_code: the same without the save, "not
\* found" shown in a message box.
import_claude_code(c, file) == try_auto_import_claude_code(c, file)

\* The settings dialog: closed, and once it is opened the Config as it was
\* then and the outcome of the button pressed last.
NoDialog == [open |-> FALSE, opened |-> None, last |-> ""]

\* What the user has in the dialog's fields when pressing Save; confirm is
\* the answer to "Save anyway?".  The three numbers are text: Num or Bad.
Form(mode, api_key, endpoint, interval, yellow, red, confirm) ==
    [mode |-> mode, api_key |-> api_key, endpoint |-> endpoint,
     interval |-> interval, yellow |-> yellow, red |-> red,
     confirm |-> confirm]

\* api_key.startswith("sk-"), for the keys of the model.
startswith_sk(key) == key \in {"sk-key", "sk-new"}

\* SettingsDialog._save: [accepted, config].  The key and the endpoint mode
\* are written before the numbers are parsed; Config.save() succeeds.
save(c, form) ==
    LET typed == form.mode = "api_key"
        refused == typed /\ form.api_key # ""
                       /\ ~startswith_sk(form.api_key) /\ ~form.confirm
        c1 == IF typed
              THEN [c EXCEPT !.api_key = form.api_key,
                             !.endpoint_mode = form.endpoint]
              ELSE c
    IN  IF refused THEN [accepted |-> FALSE, config |-> c]
        ELSE IF Bad \in {form.interval, form.yellow, form.red}
        THEN [accepted |-> FALSE, config |-> c1]
        ELSE IF form.red.v >= form.yellow.v
        THEN [accepted |-> FALSE, config |-> c1]
        ELSE [accepted |-> TRUE,
              config |-> [c1 EXCEPT
                  !.auth_mode = form.mode,
                  !.poll_interval_seconds = Max2(10, form.interval.v),
                  !.yellow_threshold_pct = form.yellow.v,
                  !.red_threshold_pct = form.red.v]]

\* The cache as Claude Code writes it, expiresAt 1.8e12 milliseconds.
ClaudeCodeFile ==
    JsonFile("provider", Entry("object", JStr("tok-cc"), JStr("ref-cc"),
                               JNum(Limbs(1, 800, 0, 0, 0))))

\* The files the application is started with: read only by the
\* auto-import, which runs for an OAuth config without a token.
StartupFiles(c) ==
    IF c.auth_mode = "oauth" /\ c.oauth_access_token = ""
    THEN {NoFile("missing"), ClaudeCodeFile}
    ELSE {NoFile("missing")}

(***************************************************************************)
(* UsageOverlay: what the poll threads call                                *)
(***************************************************************************)
\* A flash_bars argument: _refresh passes a bool, _set_flash expects a list.
PyBool(b) == [py |-> "bool", val |-> b]
PyList(l) == [py |-> "list", val |-> l]

DrawMsg(u, y, r, rs) == [fn |-> "_draw", u |-> u, y |-> y, r |-> r, rs |-> rs]
FlashMsg(fb, c) == [fn |-> "_set_flash", fb |-> fb, c |-> c]
ShutdownMsg == [fn |-> "_shutdown"]

\* The guard of schedule_update and schedule_flash.
overlay_accepts == ov_root /\ ov_ready

\* A schedule_update that puts its message ahead of the ones waiting.
schedule_update_front(q, u, y, r, rs) ==
    IF overlay_accepts THEN <<DrawMsg(u, y, r, rs)>> \o q ELSE q

\* schedule_update: the queue after the call.
schedule_update(q, u, y, r, rs) ==
    IF overlay_accepts THEN Append(q, DrawMsg(u, y, r, rs)) ELSE q

\* schedule_flash: [raised, err, queue].  The lambda's default fb =
\* list(flash_bars) is evaluated in the calling thread: list(<bool>) raises
\* TypeError.
schedule_flash(q, flash_arg, critical) ==
    IF overlay_accepts
    THEN IF flash_arg.py = "list"
         THEN [raised |-> FALSE, err |-> NoError,
               queue |-> Append(q, FlashMsg(flash_arg.val, critical))]
         ELSE [raised |-> TRUE, queue |-> q,
               err |-> Exc("TypeError", "'bool' object is not iterable", 0)]
    ELSE [raised |-> FALSE, err |-> NoError, queue |-> q]

\* UsageOverlay.stop: the queue after the call.
overlay_stop(q) == IF ov_root THEN Append(q, ShutdownMsg) ELSE q

(***************************************************************************)
(* Threads                                                                 *)
(***************************************************************************)
MaxManual == 1

\* 0 is the poll thread; 1..MaxManual are the threads of _on_refresh.
Threads == 0..MaxManual

\* The three credential fields of Config.
Tokens(c) ==
    [access |-> c.oauth_access_token, refresh |-> c.oauth_refresh_token,
     expires_at |-> c.oauth_expires_at]

\* One entry of the record of what a poll did: an HTTP request ("token":
\* the POST to the token endpoint, "usage": the requests of check_usage,
\* with the access token they carry), a write of the three credential
\* fields ("store") or a Config.save() ("save", "save_failed").
Ev(name, token) == [ev |-> name, token |-> token]

\* The locals of a thread running _poll_loop / _refresh, and (before, log)
\* the credentials at the start of its current _refresh call and the
\* record of what the call did so far.  The record is kept for the part of
\* _refresh that issues requests and writes credentials (lines 142-154, up
\* to the return or raise of check_usage) and dropped by the statement
\* that follows.
Frame0 ==
    [pc |-> "unstarted", out |-> Pending, pct |-> 0,
     flash |-> [active |-> FALSE, critical |-> FALSE],
     exc |-> NoError, refresh_token |-> "", interval |-> 0, i |-> 0,
     before |-> None, log |-> <<>>]

At(t, pc) == th[t].pc = pc

Goto(t, pc) == th' = [th EXCEPT ![t].pc = pc]

SetFrame(t, f) == th' = [th EXCEPT ![t] = f]

\* An exception raised inside the try block of _refresh: on to the handler.
Throw(t, e) == SetFrame(t, [th[t] EXCEPT !.pc = "h_error", !.exc = e])

AttributeError(name) ==
    Exc("AttributeError", "'NoneType' object has no attribute <name>", 0)

NoPoll ==
    [t |-> -1, out |-> Pending, exc |-> NoError, escaped |-> FALSE,
     ready |-> FALSE]

\* _refresh ends in thread t: it returns (the poll thread goes on to its
\* sleep, a manual thread is over) or the exception escapes and ends the
\* thread.
EndRefresh(t, escaped) ==
    /\ SetFrame(t, [Frame0 EXCEPT
            !.pc = IF escaped THEN "raised"
                   ELSE IF t = 0 THEN "s_interval" ELSE "done"])
    /\ last_poll' = [t |-> t, out |-> th[t].out, exc |-> th[t].exc,
                     escaped |-> escaped, ready |-> overlay_accepts]

InRefresh(t) ==
    th[t].pc \in {"r_begin", "r_token", "r_call", "r_set_usage",
                  "r_set_error", "r_pct", "r_log",
                  "r_update_unified", "r_update_single", "r_flash",
                  "h_error", "h_usage", "h_flash"}

(***************************************************************************)
(* BurnBarApp._refresh, statement by statement                             *)
(***************************************************************************)
\* What the token endpoint (its answer carries a new refresh token) and the
\* following Config.save() do.
TokenAnswers == {"ok", "ok_save_fails", "http_error"}

\* What the usage endpoints answer to one poll (both the same way).
PollAnswers ==
    {Response(200, "", Num(1000), Num(50), Num(980)),
     Response(200, "", Num(1000), Num(120), Num(500)),
     ConnectionError}

\* A check that never gives up: an expired token is always sent to refresh.
needs_relogin_never(c, t) == FALSE

\* _ensure_valid_oauth_token, lines 111-117: the token is expired and there
\* is no refresh token to renew it with.
needs_relogin(c, t) ==
    /\ is_token_expired(c.oauth_expires_at, t)
    /\ c.oauth_refresh_token = ""

\* lines 142-143 and 109-119: the mode, and _ensure_valid_oauth_token up
\* to its request.
RefreshBegin(t) ==
    /\ At(t, "r_begin")
    /\ LET f == [th[t] EXCEPT !.before = Tokens(config), !.log = <<>>]
       IN  IF is_oauth_mode(config)
           THEN IF needs_relogin(config, now)
                THEN SetFrame(t, [f EXCEPT !.pc = "h_error",
                         !.exc = ApiError(
                             "OAuth token expired -- re-login in Settings")])
                ELSE IF is_token_expired(config.oauth_expires_at, now)
                THEN SetFrame(t, [f EXCEPT !.pc = "r_token",
                         !.refresh_token = config.oauth_refresh_token])
                ELSE SetFrame(t, [f EXCEPT !.pc = "r_call"])
           ELSE SetFrame(t, [f EXCEPT !.pc = "r_call"])
    /\ UNCHANGED <<apiVars, credVars, appVars, main, ovVars, histVars>>

\* refresh_access_token for an answer of the token endpoint that is not an
\* error: (new_access_token, new_refresh_token, new_expires_at).
refresh_access_token(refresh_token, t) ==
    [access |-> "tok-new", refresh |-> "ref-new", expires_at |-> t + 3600]

\* A handler that drops the new credentials.
store_tokens_dropped(c, new) == c

\* lines 126-128: the three writes to Config.
store_tokens(c, new) ==
    [c EXCEPT !.oauth_access_token = new.access,
              !.oauth_refresh_token = new.refresh,
              !.oauth_expires_at = new.expires_at]

\* lines 120-133: refresh_access_token, the three Config writes, save().
RefreshToken(t) ==
    /\ At(t, "r_token")
    /\ \E a \in TokenAnswers :
         LET asked == Append(th[t].log, Ev("token", th[t].refresh_token))
             stored == Append(asked, Ev("store", ""))
         IN  IF a = "http_error"
             THEN /\ SetFrame(t, [th[t] EXCEPT !.pc = "h_error",
                        !.exc = ApiError("Token refresh failed: <exc>"),
                        !.log = asked])
                  /\ UNCHANGED config
             ELSE /\ config' = store_tokens(config,
                          refresh_access_token(th[t].refresh_token, now))
                  /\ IF a = "ok_save_fails"
                     THEN SetFrame(t, [th[t] EXCEPT !.pc = "h_error",
                              !.exc = ApiError("Token refresh failed: <exc>"),
                              !.log = Append(stored, Ev("save_failed", ""))])
                     ELSE SetFrame(t, [th[t] EXCEPT !.pc = "r_call",
                              !.refresh_token = "",
                              !.log = Append(stored, Ev("save", ""))])
    /\ UNCHANGED <<apiVars, credVars, usage, error, running, now, main, ovVars, histVars>>

\* lines 144-152: the client for the mode, from Config as it is now.
client_for(c) ==
    IF is_oauth_mode(c)
    THEN AnthropicClient("", "both", "oauth", c.oauth_access_token)
    ELSE AnthropicClient(c.api_key, c.endpoint_mode, "api_key", "")

\* lines 144-154: the client is built and check_usage() called; the call
\* touches nothing shared.
RefreshCall(t) ==
    /\ At(t, "r_call")
    /\ \E a \in PollAnswers :
         LET client == client_for(config)
             f == check_usage(client, [count_tokens |-> a, messages |-> a])
             log == IF f.calls = <<>> THEN th[t].log
                    ELSE Append(th[t].log, Ev("usage", client.access_token))
         IN  IF f.out.raised
             THEN SetFrame(t, [th[t] EXCEPT !.pc = "h_error", !.out = f.out,
                                            !.exc = f.out.err, !.log = log])
             ELSE SetFrame(t, [th[t] EXCEPT !.pc = "r_set_usage",
                                            !.out = f.out, !.log = log])
    /\ UNCHANGED <<apiVars, credVars, appVars, main, ovVars, histVars>>

\* line 154, the store: self.usage = <result>.
RefreshSetUsage(t) ==
    /\ At(t, "r_set_usage")
    /\ usage' = th[t].out.usage
    /\ SetFrame(t, [th[t] EXCEPT !.pc = "r_set_error",
                                 !.before = None, !.log = <<>>])
    /\ UNCHANGED <<apiVars, credVars, config, error, running, now, main, ovVars, histVars>>

\* line 155: self.error = None.
RefreshSetError(t) ==
    /\ At(t, "r_set_error")
    /\ error' = None
    /\ Goto(t, "r_pct")
    /\ UNCHANGED <<apiVars, credVars, config, usage, running, now, main, ovVars, histVars>>

\* line 157: pct = self.usage.percentage.
RefreshPct(t) ==
    /\ At(t, "r_pct")
    /\ IF usage = None
       THEN Throw(t, AttributeError("percentage"))
       ELSE SetFrame(t, [th[t] EXCEPT !.pc = "r_log", !.pct = percentage(usage)])
    /\ UNCHANGED <<apiVars, credVars, appVars, main, ovVars, histVars>>

\* lines 172-173: the thresholds as utilizations (thousandths).
yellow_util(c) == 1000 - c.yellow_threshold_pct * 10
red_util(c) == 1000 - c.red_threshold_pct * 10

\* lines 158-174: self.usage.summary for the log, the flash state, and the
\* isinstance test, which reads self.usage again.
RefreshLog(t) ==
    /\ At(t, "r_log")
    /\ IF usage = None
       THEN Throw(t, AttributeError("summary"))
       ELSE SetFrame(t, [th[t] EXCEPT
                !.pc = IF usage.type = "UnifiedUsageInfo"
                       THEN "r_update_unified" ELSE "r_update_single",
                !.flash = flash_state(th[t].pct, config)])
    /\ UNCHANGED <<apiVars, credVars, appVars, main, ovVars, histVars>>

\* lines 175-181: the resets and utilizations of self.usage, read again,
\* and schedule_update.
RefreshUpdateUnified(t) ==
    /\ At(t, "r_update_unified")
    /\ IF usage.type # "UnifiedUsageInfo"
       THEN /\ Throw(t, AttributeError("reset_5h"))
            /\ UNCHANGED ov_queue
       ELSE /\ ov_queue' = schedule_update(ov_queue, utilizations(usage),
                               yellow_util(config), red_util(config),
                               <<usage.reset_5h, usage.reset_7d,
                                 usage.reset_7d_sonnet>>)
            /\ Goto(t, "r_flash")
    /\ UNCHANGED <<apiVars, credVars, appVars, main, ov_root, ov_window, ov_ready,
                   ov_canvas, last_draw, flash_bars, flash_visible,
                   flash_critical, flash_dismissed, ov_timers, histVars>>

\* An update that stores the draw from the poll thread instead of posting it.
RefreshUpdateSingleDirect(t) ==
    /\ At(t, "r_update_single")
    /\ LET util == 1000 - th[t].pct
       IN  last_draw' = DrawMsg(<<util, util, util>>, yellow_util(config),
                                red_util(config), <<0, 0, 0>>)
    /\ Goto(t, "r_flash")
    /\ UNCHANGED <<apiVars, credVars, appVars, main, ov_root, ov_window, ov_ready,
                   ov_canvas, ov_queue, flash_bars, flash_visible,
                   flash_critical, flash_dismissed, ov_timers, histVars>>

\* lines 183-185: schedule_update((util, util, util), ...).
RefreshUpdateSingle(t) ==
    /\ At(t, "r_update_single")
    /\ LET util == 1000 - th[t].pct
       IN  ov_queue' = schedule_update(ov_queue, <<util, util, util>>,
                           yellow_util(config), red_util(config), <<0, 0, 0>>)
    /\ Goto(t, "r_flash")
    /\ UNCHANGED <<apiVars, credVars, appVars, main, ov_root, ov_window, ov_ready,
                   ov_canvas, last_draw, flash_bars, flash_visible,
                   flash_critical, flash_dismissed, ov_timers, histVars>>

\* line 186: schedule_flash(flash_active, flash_critical), then the return.
RefreshFlash(t) ==
    /\ At(t, "r_flash")
    /\ LET sf == schedule_flash(ov_queue, PyBool(th[t].flash.active),
                                th[t].flash.critical)
       IN  IF sf.raised
           THEN /\ Throw(t, sf.err)
                /\ UNCHANGED <<ov_queue, last_poll>>
           ELSE /\ ov_queue' = sf.queue
                /\ EndRefresh(t, FALSE)
    /\ UNCHANGED <<apiVars, credVars, appVars, main, ov_root, ov_window, ov_ready,
                   ov_canvas, last_draw, flash_bars, flash_visible,
                   flash_critical, flash_dismissed, ov_timers, stop_pc,
                   stop_sleeps, applied>>

\* line 190: self.error = str(exc)[:80].
HandlerError(t) ==
    /\ At(t, "h_error")
    /\ error' = str_exc(th[t].exc)
    /\ SetFrame(t, [th[t] EXCEPT !.pc = "h_usage",
                                 !.before = None, !.log = <<>>])
    /\ UNCHANGED <<apiVars, credVars, config, usage, running, now, main, ovVars, histVars>>

\* line 191: self.usage = None.
HandlerUsage(t) ==
    /\ At(t, "h_usage")
    /\ usage' = None
    /\ Goto(t, "h_flash")
    /\ UNCHANGED <<apiVars, credVars, config, error, running, now, main, ovVars, histVars>>

\* line 192: schedule_flash(False, False) inside the handler: what it
\* raises leaves _refresh.
HandlerFlash(t) ==
    /\ At(t, "h_flash")
    /\ LET sf == schedule_flash(ov_queue, PyBool(FALSE), FALSE)
       IN  /\ ov_queue' = sf.queue
           /\ EndRefresh(t, sf.raised)
    /\ UNCHANGED <<apiVars, credVars, appVars, main, ov_root, ov_window, ov_ready,
                   ov_canvas, last_draw, flash_bars, flash_visible,
                   flash_critical, flash_dismissed, ov_timers, stop_pc,
                   stop_sleeps, applied>>

(***************************************************************************)
(* BurnBarApp._poll_loop                                                   *)
(***************************************************************************)
\* line 80: interval = max(10, self.config.poll_interval_seconds)
poll_interval_unclamped(c) == c.poll_interval_seconds

poll_interval(c) == Max2(10, c.poll_interval_seconds)

\* lines 75 and 82: the loop goes on while self.running is true.
poll_loop_ignores_flag(r) == TRUE

poll_loop_continues(r) == r

\* line 74: time.sleep(1)
PollLoopSleep1 ==
    /\ At(0, "s_initial_sleep")
    /\ Goto(0, "s_while")
    /\ UNCHANGED <<apiVars, credVars, appVars, main, ovVars, histVars>>

\* line 75: while self.running
PollLoopWhile ==
    /\ At(0, "s_while")
    /\ IF poll_loop_continues(running) THEN Goto(0, "s_creds")
       ELSE Goto(0, "exit")
    /\ UNCHANGED <<apiVars, credVars, appVars, main, ovVars, histVars>>

\* lines 76-79: if self._has_credentials(): self._refresh()
PollLoopCreds ==
    /\ At(0, "s_creds")
    /\ IF has_credentials(config) THEN Goto(0, "r_begin")
       ELSE Goto(0, "s_interval")
    /\ UNCHANGED <<apiVars, credVars, appVars, main, ovVars, histVars>>

\* line 80, and the range of line 81.
PollLoopInterval ==
    /\ At(0, "s_interval")
    /\ SetFrame(0, [th[0] EXCEPT !.pc = "s_for",
            !.interval = poll_interval(config), !.i = 0])
    /\ UNCHANGED <<apiVars, credVars, appVars, main, ovVars, histVars>>

\* lines 81-83: the next item of range(interval * 10), then the flag.
PollLoopFor ==
    /\ At(0, "s_for")
    /\ IF th[0].i >= th[0].interval * 10 THEN Goto(0, "s_while")
       ELSE IF ~poll_loop_continues(running) THEN Goto(0, "exit")
       ELSE Goto(0, "s_sleep")
    /\ UNCHANGED <<apiVars, credVars, appVars, main, ovVars, histVars>>

\* line 84: time.sleep(0.1)
PollLoopSleep ==
    /\ At(0, "s_sleep")
    /\ SetFrame(0, [th[0] EXCEPT !.pc = "s_for", !.i = @ + 1])
    /\ stop_sleeps' = IF running THEN stop_sleeps ELSE Min2(stop_sleeps + 1, 2)
    /\ UNCHANGED <<apiVars, credVars, appVars, main, ovVars, last_poll, stop_pc,
                   applied>>

\* lines 81-84 with the position in the range left open: the flag is read
\* at the head of each iteration, and any sleep may be the last one.
PollLoopForSome ==
    /\ At(0, "s_for")
    /\ IF ~poll_loop_continues(running) THEN Goto(0, "exit")
       ELSE Goto(0, "s_sleep")
    /\ UNCHANGED <<apiVars, credVars, appVars, main, ovVars, histVars>>

PollLoopSleepSome ==
    /\ At(0, "s_sleep")
    /\ \/ Goto(0, "s_for")
       \/ Goto(0, "s_while")
    /\ stop_sleeps' = IF running THEN stop_sleeps ELSE Min2(stop_sleeps + 1, 2)
    /\ UNCHANGED <<apiVars, credVars, appVars, main, ovVars, last_poll, stop_pc,
                   applied>>

(***************************************************************************)
(* UsageOverlay on the tk thread                                           *)
(***************************************************************************)
NoFlash == <<FALSE, FALSE, FALSE>>

any(bars) == \E i \in 1..3 : bars[i]

\* The bar fills a call has put on the canvas: none, when it did not draw.
NotDrawn == <<>>

\* The overlay's fields as one value; raised: a TclError is propagating;
\* fills: what the last _draw of the call in progress has put on the canvas.
Ov ==
    [root |-> ov_root, window |-> ov_window, canvas |-> ov_canvas,
     last_draw |-> last_draw, bars |-> flash_bars, visible |-> flash_visible,
     critical |-> flash_critical, dismissed |-> flash_dismissed,
     timers |-> ov_timers, raised |-> FALSE, fills |-> NotDrawn]

SetOv(o) ==
    /\ ov_root' = o.root
    /\ ov_window' = o.window
    /\ ov_canvas' = o.canvas
    /\ last_draw' = o.last_draw
    /\ flash_bars' = o.bars
    /\ flash_visible' = o.visible
    /\ flash_critical' = o.critical
    /\ flash_dismissed' = o.dismissed
    /\ ov_timers' = o.timers

Clamp(x, lo, hi) == IF x < lo THEN lo ELSE IF x > hi THEN hi ELSE x

\* _bar_color
bar_color(utilization, yellow_thresh, red_thresh) ==
    IF utilization >= red_thresh THEN "red"
    ELSE IF utilization >= yellow_thresh THEN "yellow"
    ELSE "green"

\* _draw, lines 384-387: bar_x1 - bar_x0 at scale 1.0, in pixels.
BarWidth == 112

\* Bar fills that blink whether dismissed or not.
bar_fills_blinking_dismissed(o, d) ==
    [i \in 1..3 |->
        LET flash_off == o.bars[i] /\ ~o.visible
            fill_w == (BarWidth * Clamp(d.u[i], 0, 1000)) \div 1000
        IN  IF fill_w > 0 /\ ~flash_off
            THEN bar_color(d.u[i], d.y, d.r)
            ELSE "none"]

\* _draw, lines 399-407: the colour of each bar's fill, "none" when the
\* fill is left out.
bar_fills(o, d) ==
    [i \in 1..3 |->
        LET flash_off == o.bars[i] /\ ~o.dismissed[i] /\ ~o.visible
            fill_w == (BarWidth * Clamp(d.u[i], 0, 1000)) \div 1000
        IN  IF fill_w > 0 /\ ~flash_off
            THEN bar_color(d.u[i], d.y, d.r)
            ELSE "none"]

\* _draw: the canvas calls raise TclError once the window is gone.
draw(o, d) ==
    IF ~o.canvas THEN o
    ELSE [o EXCEPT !.last_draw = d, !.raised = o.window # "alive",
                   !.fills = IF o.window = "alive" THEN bar_fills(o, d) ELSE @]

redraw(o) == IF o.last_draw # None THEN draw(o, o.last_draw) ELSE o

\* A _flash_tick that does not look at the flash bars.
flash_tick_unguarded(o) ==
    IF ~o.root THEN o
    ELSE LET o1 == redraw([o EXCEPT !.visible = ~@])
         IN  IF o1.raised THEN o1
             ELSE [o1 EXCEPT !.timers =
                      Append(@, IF o1.critical THEN 500 ELSE 1000)]

\* _flash_tick
flash_tick(o) ==
    IF ~any(o.bars) \/ ~o.root THEN o
    ELSE LET o1 == redraw([o EXCEPT !.visible = ~@])
         IN  IF o1.raised THEN o1
             ELSE [o1 EXCEPT !.timers =
                      Append(@, IF o1.critical THEN 500 ELSE 1000)]

\* A _set_flash that leaves the dismissed flags as they are.
set_flash_keeps_dismissed(o, fb, c) ==
    LET was_any == any(o.bars)
        now_any == any(fb)
        o1 == [o EXCEPT !.bars = fb, !.critical = c]
    IN  IF now_any /\ ~was_any THEN flash_tick([o1 EXCEPT !.visible = TRUE])
        ELSE IF ~now_any /\ was_any THEN redraw([o1 EXCEPT !.visible = TRUE])
        ELSE o1

\* _set_flash
set_flash(o, fb, c) ==
    LET was_any == any(o.bars)
        now_any == any(fb)
        o1 == [o EXCEPT
                 !.dismissed = [i \in 1..3 |->
                     IF o.bars[i] /\ ~fb[i] THEN FALSE ELSE o.dismissed[i]],
                 !.bars = fb, !.critical = c]
    IN  IF now_any /\ ~was_any THEN flash_tick([o1 EXCEPT !.visible = TRUE])
        ELSE IF ~now_any /\ was_any THEN redraw([o1 EXCEPT !.visible = TRUE])
        ELSE o1

\* A 'Dismiss Flash' that marks every window, active or not.
menu_dismiss_flash_all(o) ==
    redraw([o EXCEPT !.dismissed = <<TRUE, TRUE, TRUE>>])

\* _menu_dismiss_flash
menu_dismiss_flash(o) ==
    redraw([o EXCEPT !.dismissed =
                [i \in 1..3 |-> o.dismissed[i] \/ o.bars[i]]])

\* _shutdown: destroy() raises TclError on a window already destroyed.
shutdown(o) ==
    IF ~o.root THEN o
    ELSE IF o.window # "alive" THEN [o EXCEPT !.raised = TRUE]
    ELSE [o EXCEPT !.root = FALSE, !.window = "destroyed"]

\* fn() for one callable of the queue.
call_posted(o, m) ==
    CASE m.fn = "_draw" -> draw(o, [u |-> m.u, y |-> m.y, r |-> m.r, rs |-> m.rs])
      [] m.fn = "_set_flash" -> set_flash(o, m.fb, m.c)
      [] m.fn = "_shutdown" -> shutdown(o)

TclError == Exc("TclError", "application has been destroyed", 0)

\* The sequence s without its i-th element.
Without(s, i) == [k \in 1..(Len(s) - 1) |-> IF k < i THEN s[k] ELSE s[k + 1]]

\* The record of one call on the tk thread: fn(m) found the overlay as o
\* and left it as after, with the fills after.fills on the canvas.
Applied(fn, m, o, after) ==
    [fn |-> fn, msg |-> m, root |-> o.root, bars |-> o.bars,
     dismissed |-> o.dismissed, visible |-> o.visible,
     critical |-> o.critical, timers |-> o.timers, drawn |-> after.fills]

NoneApplied == Applied("", None, [root |-> FALSE, bars |-> NoFlash,
                   dismissed |-> NoFlash, visible |-> TRUE,
                   critical |-> FALSE, timers |-> <<>>],
                   [fills |-> NotDrawn])

(***************************************************************************)
(* The main thread: BurnBarApp.run and UsageOverlay.run_mainloop           *)
(***************************************************************************)
\* app.py line 61: alive_check = lambda: self.running
alive_check_always(r) == TRUE

alive_check(r) == r

MainGoto(pc) == main' = [main EXCEPT !.pc = pc]

\* overlay.py line 182: while alive_check().  Only the main thread writes
\* self.running, so the test is taken together with the step before it.
MainLoop(r) == MainGoto(IF alive_check(r) THEN "m_drain" ELSE "m_finally")

\* What happens to the history when self.running is assigned False.
NoteStop ==
    /\ stop_pc' = IF running THEN th[0].pc ELSE stop_pc
    /\ UNCHANGED <<last_poll, stop_sleeps, applied>>

\* lines 34-39: the auto-import is tried for OAuth without a token.
MainRun ==
    /\ main.pc = "idle"
    /\ IF is_oauth_mode(config) /\ ~has_oauth_token(config)
       THEN MainGoto("m_import") ELSE MainGoto("m_start")
    /\ UNCHANGED <<apiVars, credVars, appVars, th, ovVars, histVars>>

\* line 39: _try_auto_import_claude_code().  What it raises leaves run()
\* before self.running is assigned.
MainImport ==
    /\ main.pc = "m_import"
    /\ LET r == try_auto_import_claude_code(config, creds_file)
       IN  /\ config' = r.config
           /\ ret' = Call("_try_auto_import_claude_code",
                          [config |-> config, file |-> creds_file], r)
           /\ IF r.raised
              THEN main' = [pc |-> "crashed", exc |-> r.err]
              ELSE MainGoto("m_start")
    /\ UNCHANGED <<apiVars, creds_file, dialog, usage, error, running, now, th,
                   ovVars, histVars>>

\* lines 41-53: self.running = True, the poll thread is started.
MainStart ==
    /\ main.pc = "m_start"
    /\ running' = TRUE
    /\ Goto(0, "s_initial_sleep")
    /\ MainGoto("m_init")
    /\ UNCHANGED <<apiVars, credVars, config, usage, error, now, ovVars, histVars>>

\* _init_window: the root, the canvas, then self._ready.set().
MainInitWindow ==
    /\ main.pc = "m_init"
    /\ ov_root' = TRUE
    /\ ov_window' = "alive"
    /\ ov_canvas' = TRUE
    /\ ov_ready' = TRUE
    /\ MainLoop(running)
    /\ UNCHANGED <<apiVars, credVars, appVars, th, ov_queue, last_draw, flash_bars,
                   flash_visible, flash_critical, flash_dismissed, ov_timers,
                   histVars>>

\* overlay.py lines 184-189: one callable of the queue, or on to update().
MainDrain ==
    /\ main.pc = "m_drain"
    /\ IF ov_queue = <<>>
       THEN /\ MainGoto("m_update")
            /\ UNCHANGED <<ovVars, applied>>
       ELSE LET o == call_posted(Ov, Head(ov_queue))
            IN  /\ SetOv(o)
                /\ ov_queue' = Tail(ov_queue)
                /\ applied' = Applied(Head(ov_queue).fn, Head(ov_queue), Ov, o)
                /\ UNCHANGED ov_ready
                /\ main' = IF o.raised
                           THEN [pc |-> "m_finally", exc |-> TclError]
                           ELSE main
    /\ UNCHANGED <<apiVars, credVars, appVars, th, last_poll, stop_pc,
                   stop_sleeps>>

\* What update() can dispatch: nothing, a menu command, a timer, or the
\* window being destroyed under it.
Events ==
    {"none", "exit", "destroyed"}
    \cup (IF \E t \in 1..MaxManual : At(t, "unstarted") THEN {"refresh"} ELSE {})
    \cup (IF ov_timers # <<>> THEN {"tick"} ELSE {})
    \cup (IF \E i \in 1..3 : flash_bars[i] /\ ~flash_dismissed[i]
          THEN {"dismiss"} ELSE {})

\* overlay.py lines 190-195: self._root.update(), then time.sleep(0.02).
MainUpdate ==
    /\ main.pc = "m_update"
    /\ IF ~ov_root
       THEN /\ main' = [pc |-> "m_finally",
                        exc |-> AttributeError("update")]
            /\ UNCHANGED <<running, th, ovVars, histVars>>
       ELSE \E ev \in Events :
            CASE ev = "none" ->
                   /\ MainLoop(running)
                   /\ UNCHANGED <<running, th, ovVars, histVars>>
              [] ev = "refresh" ->
                   \* _on_refresh: Thread(target=self._refresh).start()
                   /\ LET t == CHOOSE t \in 1..MaxManual : At(t, "unstarted")
                      IN  Goto(t, "r_begin")
                   /\ MainLoop(running)
                   /\ UNCHANGED <<running, ovVars, histVars>>
              [] ev = "exit" ->
                   \* _on_exit: self.running = False; self._overlay.stop()
                   /\ running' = FALSE
                   /\ NoteStop
                   /\ ov_queue' = overlay_stop(ov_queue)
                   /\ MainLoop(FALSE)
                   /\ UNCHANGED <<th, ov_root, ov_window, ov_ready, ov_canvas,
                                  last_draw, flash_bars, flash_visible,
                                  flash_critical, flash_dismissed, ov_timers>>
              [] ev = "destroyed" ->
                   \* update() raises TclError: break
                   /\ ov_window' = "destroyed"
                   /\ MainGoto("m_finally")
                   /\ UNCHANGED <<running, th, ov_root, ov_ready, ov_canvas,
                                  ov_queue, last_draw, flash_bars,
                                  flash_visible, flash_critical,
                                  flash_dismissed, ov_timers, histVars>>
              [] ev = "tick" ->
                   \* a timer that is due: self._flash_tick(interval)
                   \E i \in 1..Len(ov_timers) :
                     LET o == flash_tick([Ov EXCEPT !.timers = Without(@, i)])
                     IN  /\ SetOv(o)
                         /\ applied' = Applied("_flash_tick", None, Ov, o)
                         /\ MainLoop(running)
                         /\ UNCHANGED <<running, th, ov_ready, ov_queue,
                                        last_poll, stop_pc, stop_sleeps>>
              [] ev = "dismiss" ->
                   \* "Dismiss Flash": self._menu_dismiss_flash()
                   LET o == menu_dismiss_flash(Ov)
                   IN  /\ SetOv(o)
                       /\ applied' = Applied("_menu_dismiss_flash", None, Ov, o)
                       /\ MainLoop(running)
                       /\ UNCHANGED <<running, th, ov_ready, ov_queue,
                                      last_poll, stop_pc, stop_sleeps>>
    /\ UNCHANGED <<apiVars, credVars, config, usage, error, now>>

\* overlay.py lines 196-198: finally: self._shutdown()
MainFinally ==
    /\ main.pc = "m_finally"
    /\ LET o == shutdown(Ov)
       IN  /\ SetOv(o)
           /\ main' = [pc |-> "m_run_finally",
                       exc |-> IF o.raised THEN TclError ELSE main.exc]
    /\ UNCHANGED <<apiVars, credVars, appVars, th, ov_ready, ov_queue, histVars>>

\* app.py lines 64-65: finally: self.running = False
MainRunFinally ==
    /\ main.pc = "m_run_finally"
    /\ running' = FALSE
    /\ NoteStop
    /\ MainGoto(IF main.exc = NoError THEN "exited" ELSE "raised")
    /\ UNCHANGED <<apiVars, credVars, config, usage, error, now, th, ovVars>>

(***************************************************************************)
(* The application: the main thread, the poll thread, the manual polls     *)
(***************************************************************************)
Now0 == 10000

\* The application before run(): nothing started, nothing drawn.
AppIdleAt(c, manual, clock) ==
    /\ config = c
    /\ usage = None
    /\ error = None
    /\ running = FALSE
    /\ now = clock
    /\ main = [pc |-> "idle", exc |-> NoError]
    /\ th = [t \in Threads |->
               IF t = 0 \/ manual THEN Frame0
               ELSE [Frame0 EXCEPT !.pc = "absent"]]
    /\ ov_root = FALSE
    /\ ov_window = "none"
    /\ ov_ready = FALSE
    /\ ov_canvas = FALSE
    /\ ov_queue = <<>>
    /\ last_draw = None
    /\ flash_bars = NoFlash
    /\ flash_visible = TRUE
    /\ flash_critical = FALSE
    /\ flash_dismissed = NoFlash
    /\ ov_timers = <<>>
    /\ last_poll = NoPoll
    /\ stop_pc = "none"
    /\ stop_sleeps = 0
    /\ applied = NoneApplied
    /\ ret = NoCall
    /\ dialog = NoDialog

\* The application before run(), at the time the model starts at.
AppIdle(c, manual) ==
    /\ AppIdleAt(c, manual, Now0)
    /\ creds_file \in StartupFiles(c)

\* No check_usage call is followed on its own.
ApiIdle ==
    /\ api_client = None
    /\ api_net = None
    /\ api_pc = "idle"
    /\ api_last_error = NoError
    /\ api_out = Pending
    /\ api_calls = <<>>

\* The credentials a config file can hold: an API key, an OAuth token that
\* is valid, one that has expired (with and without a refresh token), and
\* OAuth with nothing stored.
Credentials(interval) ==
    {Config("api_key", "sk-key", "", "", 0, interval),
     Config("oauth", "", "tok", "ref", Now0 + 3600, interval),
     Config("oauth", "", "tok", "ref", Now0 - 10, interval),
     Config("oauth", "", "tok", "", Now0 - 10, interval),
     Config("oauth", "", "", "", 0, interval)}

Refresh(t) ==
    \/ RefreshBegin(t)
    \/ RefreshToken(t)
    \/ RefreshCall(t)
    \/ RefreshSetUsage(t)
    \/ RefreshSetError(t)
    \/ RefreshPct(t)
    \/ RefreshLog(t)
    \/ RefreshUpdateUnified(t)
    \/ RefreshUpdateSingle(t)
    \/ RefreshFlash(t)
    \/ HandlerError(t)
    \/ HandlerUsage(t)
    \/ HandlerFlash(t)

MainThread ==
    \/ MainRun
    \/ MainImport
    \/ MainStart
    \/ MainInitWindow
    \/ MainDrain
    \/ MainUpdate
    \/ MainFinally
    \/ MainRunFinally

\* The poll thread with its sleep counted in 100 ms increments.
PollThread ==
    \/ PollLoopSleep1
    \/ PollLoopWhile
    \/ PollLoopCreds
    \/ PollLoopInterval
    \/ PollLoopFor
    \/ PollLoopSleep
    \/ Refresh(0)

\* The poll thread with the length of its sleep left open.
PollThreadSome ==
    \/ PollLoopSleep1
    \/ PollLoopWhile
    \/ PollLoopCreds
    \/ PollLoopInterval
    \/ PollLoopForSome
    \/ PollLoopSleepSome
    \/ Refresh(0)

ManualThreads == \E t \in 1..MaxManual : Refresh(t)

\* The whole application, manual polls included.
Init ==
    /\ ApiIdle
    /\ \E c \in Credentials(60) : AppIdle(c, TRUE)

Next == MainThread \/ PollThreadSome \/ ManualThreads

Spec == Init /\ [][Next]_vars

\* The scheduler on its own clock: no manual poll, every increment counted.
SchedIntervals == {5, 10, 11}

SchedInit ==
    /\ ApiIdle
    /\ \E c \in UNION {Credentials(n) : n \in SchedIntervals} : AppIdle(c, FALSE)

SchedNext == MainThread \/ PollThread

SpecSched == SchedInit /\ [][SchedNext]_vars

\* The main thread and the poll thread under fair scheduling: a thread
\* that can run does run, and every blocking call of a poll has a timeout.
\* How long the sleep lasts is left open.
FairInit ==
    /\ ApiIdle
    /\ \E c \in Credentials(60) : AppIdle(c, FALSE)

FairNext == MainThread \/ PollThreadSome

SpecFair ==
    /\ FairInit
    /\ [][FairNext]_vars
    /\ WF_vars(MainThread)
    /\ WF_vars(PollThreadSome)

(***************************************************************************)
(* The credential functions alone: is_token_expired, the loader and the    *)
(* two imports, for every stored expiry, clock and cache file below.       *)
(***************************************************************************)
Clocks == {0, 1, 300, 1000}

ExpiresAts == (-2..2) \cup (298..302) \cup (598..602) \cup (1298..1302)

\* OAuth configs, without and with a token, for every stored expiry.
CredConfigs ==
    {Config("oauth", "", "", "", e, 60) : e \in ExpiresAts}
    \cup {Config("oauth", "", "tok", "ref", e, 60) : e \in ExpiresAts}

\* expiresAt values around 1e12, in seconds and in milliseconds.
ExpiresAtSamples ==
    {Limbs(0, 0, 0, 0, 0), Limbs(0, 1, 700, 0, 0),
     Limbs(0, 999, 999, 999, 999), Limbs(1, 0, 0, 0, 0),
     Limbs(1, 0, 0, 0, 1), Limbs(1, 799, 999, 999, 999),
     Limbs(1, 800, 0, 0, 0), Limbs(999, 0, 0, 0, 7)}

ExpiresAtMembers ==
    {JAbsent, JNull, JStr("2026-01-01T00:00:00Z")}
    \cup {JNum(x) : x \in ExpiresAtSamples}

CredsFiles ==
    {NoFile(k) : k \in {"missing", "unreadable", "not_text", "malformed"}}
    \cup {JsonFile(shape, Scalar("falsy")) : shape \in {"not_object", "other"}}
    \cup {JsonFile("default", Scalar(j)) :
             j \in {"falsy", "number", "text", "text_other"}}
    \cup {JsonFile("default", Entry("object", JAbsent, JStr("ref-cc"), x)) :
             x \in ExpiresAtMembers}
    \cup {JsonFile(shape, Entry("object", JStr(a), r, x)) :
             shape \in {"default", "flat", "provider"}, a \in {"tok-cc", ""},
             r \in {JAbsent, JStr("ref-cc")}, x \in ExpiresAtMembers}
    \cup {JsonFile(shape, e) :
             shape \in {"default_and_flat", "default_and_provider"},
             e \in {Scalar("falsy"),
                    Entry("object", JAbsent, JStr("ref-cc"), JAbsent),
                    Entry("object", JStr("tok-cc"), JStr("ref-cc"), JAbsent)}}

CredsInit ==
    /\ ApiIdle
    /\ \E c \in CredConfigs, clock \in Clocks : AppIdleAt(c, FALSE, clock)
    /\ creds_file \in CredsFiles

\* is_token_expired(self.config.oauth_expires_at), on the Config as loaded.
CallIsTokenExpired ==
    /\ ret.fn = ""
    /\ main.pc = "idle"
    /\ ret' = Call("is_token_expired",
                   [expires_at |-> config.oauth_expires_at, now |-> now],
                   is_token_expired(config.oauth_expires_at, now))
    /\ UNCHANGED <<apiVars, appVars, main, th, ovVars, histVars, creds_file,
                   dialog>>

\* load_claude_code_credentials()
CallLoad ==
    /\ ret.fn = ""
    /\ ret' = Call("load_claude_code_credentials", creds_file,
                   load_claude_code_credentials(creds_file))
    /\ UNCHANGED <<apiVars, appVars, main, th, ovVars, histVars, creds_file,
                   dialog>>

\* The Import button of the settings dialog.
CallSettingsImport ==
    /\ ret.fn = ""
    /\ LET r == import_claude_code(config, creds_file)
       IN  /\ config' = r.config
           /\ ret' = Call("_import_claude_code",
                          [config |-> config, file |-> creds_file], r)
    /\ UNCHANGED <<apiVars, usage, error, running, now, main, th, ovVars,
                   histVars, creds_file, dialog>>

CredsNext ==
    \/ CallIsTokenExpired
    \/ CallLoad
    \/ CallSettingsImport
    \/ MainRun
    \/ MainImport

SpecCreds == CredsInit /\ [][CredsNext]_vars

(***************************************************************************)
(* The settings dialog alone: it is opened on the shared Config, and the   *)
(* user imports, saves and cancels.                                        *)
(***************************************************************************)
Forms ==
    {Form(m, k, e, i, y, r, ok) :
        m \in {"api_key", "oauth"}, k \in {"", "sk-new", "key"},
        e \in {"both", "messages"}, i \in {Num(60), Bad},
        y \in {Num(25), Num(4)}, r \in {Num(5), Num(2), Num(30), Bad},
        ok \in BOOLEAN}

SettingsConfigs ==
    {Config("api_key", "sk-key", "", "", 0, 60),
     Config("oauth", "", "tok", "ref", Now0 + 3600, 60)}

\* app.py lines 240-244: SettingsDialog(self.config, ...) on the Config
\* object itself.
DialogOpen ==
    /\ ~dialog.open
    /\ dialog' = [open |-> TRUE, opened |-> config, last |-> ""]
    /\ UNCHANGED <<apiVars, appVars, main, th, ovVars, histVars, creds_file,
                   ret>>

\* The Import button.
DialogImport ==
    /\ dialog.open
    /\ LET r == import_claude_code(config, creds_file)
       IN  /\ ~r.raised
           /\ config' = r.config
    /\ dialog' = [dialog EXCEPT !.last = "import"]
    /\ UNCHANGED <<apiVars, usage, error, running, now, main, th, ovVars,
                   histVars, creds_file, ret>>

\* The Save button: the dialog closes when the save is accepted.
DialogSave ==
    /\ dialog.open
    /\ \E form \in Forms :
         LET r == save(config, form)
         IN  /\ config' = r.config
             /\ dialog' = [dialog EXCEPT
                    !.open = ~r.accepted,
                    !.last = IF r.accepted THEN "saved" ELSE "rejected"]
    /\ UNCHANGED <<apiVars, usage, error, running, now, main, th, ovVars,
                   histVars, creds_file, ret>>

\* The Cancel button.
DialogCancel ==
    /\ dialog.open
    /\ dialog' = [dialog EXCEPT !.open = FALSE, !.last = "cancel"]
    /\ UNCHANGED <<apiVars, appVars, main, th, ovVars, histVars, creds_file,
                   ret>>

SettingsInit ==
    /\ ApiIdle
    /\ \E c \in SettingsConfigs : AppIdleAt(c, FALSE, Now0)
    /\ creds_file \in {NoFile("missing"), ClaudeCodeFile}

SettingsNext == DialogOpen \/ DialogImport \/ DialogSave \/ DialogCancel

SpecSettings == SettingsInit /\ [][SettingsNext]_vars

(***************************************************************************)
(* The overlay alone: threads call its three thread-safe methods           *)
(* (schedule_flash with a list, as its signature asks) while the tk thread *)
(* runs run_mainloop, its timers and its menu.                             *)
(***************************************************************************)
\* The longest queue, and the most timers pending, that a thread adds to.
MaxQueue == 2
MaxTimers == 2

\* The arguments of schedule_flash: (flash_bars, critical).
FlashArgs ==
    {<<NoFlash, FALSE>>, <<<<TRUE, FALSE, FALSE>>, FALSE>>,
     <<<<TRUE, FALSE, FALSE>>, TRUE>>, <<<<TRUE, TRUE, FALSE>>, FALSE>>}

Utilizations == {<<980, 100, 20>>}

\* run_mainloop is in its loop.
Looping == main.pc \in {"m_drain", "m_update"}

\* The flash messages in the queue that can start a timer.
PendingFlashes ==
    Cardinality({i \in DOMAIN ov_queue :
                    ov_queue[i].fn = "_set_flash" /\ any(ov_queue[i].fb)})

\* A thread calls schedule_update.
ProducerUpdate ==
    /\ Looping
    /\ Len(ov_queue) < MaxQueue
    /\ \E u \in Utilizations :
         ov_queue' = schedule_update(ov_queue, u, yellow_util(config),
                                     red_util(config), <<0, 0, 0>>)
    /\ UNCHANGED <<apiVars, credVars, appVars, main, th, ov_root, ov_window,
                   ov_ready, ov_canvas, last_draw, flash_bars, flash_visible,
                   flash_critical, flash_dismissed, ov_timers, histVars>>

\* A thread calls schedule_flash.
ProducerFlash ==
    /\ Looping
    /\ Len(ov_queue) < MaxQueue
    /\ \E a \in FlashArgs :
         /\ any(a[1]) => Len(ov_timers) + PendingFlashes < MaxTimers
         /\ ov_queue' = schedule_flash(ov_queue, PyList(a[1]), a[2]).queue
    /\ UNCHANGED <<apiVars, credVars, appVars, main, th, ov_root, ov_window,
                   ov_ready, ov_canvas, last_draw, flash_bars, flash_visible,
                   flash_critical, flash_dismissed, ov_timers, histVars>>

\* A thread calls stop.
ProducerStop ==
    /\ Looping
    /\ Len(ov_queue) < MaxQueue
    /\ ov_queue' = overlay_stop(ov_queue)
    /\ UNCHANGED <<apiVars, credVars, appVars, main, th, ov_root, ov_window,
                   ov_ready, ov_canvas, last_draw, flash_bars, flash_visible,
                   flash_critical, flash_dismissed, ov_timers, histVars>>

OverlayInit ==
    /\ ApiIdle
    /\ AppIdleAt(Config("oauth", "", "", "", 0, 60), FALSE, Now0)
    /\ creds_file = ClaudeCodeFile

OverlayNext ==
    \/ MainThread
    \/ ProducerUpdate
    \/ ProducerFlash
    \/ ProducerStop

SpecOverlay == OverlayInit /\ [][OverlayNext]_vars

(***************************************************************************)
(* The end of one _refresh: a manual poll on the running application whose *)
(* check_usage has just returned or raised, for every answer and every     *)
(* pair of thresholds below, with the tk thread in its loop.               *)
(***************************************************************************)
\* (critical_threshold_pct, red_threshold_pct)
AlertThresholds == {<<3, 5>>, <<5, 5>>, <<0, 10>>, <<7, 5>>}

AlertConfigs ==
    {[c EXCEPT !.critical_threshold_pct = p[1], !.red_threshold_pct = p[2]] :
        c \in {Config("api_key", "sk-key", "", "", 0, 60),
               Config("api_key", "", "", "", 0, 60),
               Config("oauth", "", "tok", "ref", Now0 + 3600, 60)},
        p \in AlertThresholds}

\* The answers: the single-window headers with the remaining tokens on
\* both sides of every threshold and outside [0, limit], a negative limit,
\* the unified headers with the 5h utilization likewise, a 429 of each
\* kind, and no answer.  The code computes the percentage in binary floating
\* point ((70 / 1000) * 100 is 7.000000000000001, (1 - 0.97) * 100 is
\* 3.0000000000000027); the values here are those whose float lies on the
\* same side of every threshold of AlertThresholds as its tenth of a percent.
AlertAnswers ==
    {Response(200, "", Num(1000), Num(tr), Absent) :
        tr \in {-50, 0, 1, 30, 31, 50, 51, 52, 71, 102, 500, 1200}}
    \cup {Response(200, "", Num(-1000), Num(50), Absent),
          Response(429, "", Num(1000), Num(50), Absent),
          Response(429, "", Absent, Absent, Num(500)),
          ConnectionError}
    \cup {Response(200, "", Absent, Absent, Num(u5)) :
            u5 \in {-200, 500, 898, 899, 929, 930, 948, 969, 980, 1000, 1500}}

\* The frame of a thread in _refresh when check_usage has answered a.
AfterCall(c, a) ==
    LET client == client_for(c)
        f == check_usage(client, [count_tokens |-> a, messages |-> a])
        frame == [Frame0 EXCEPT !.before = Tokens(c), !.out = f.out,
                     !.log = IF f.calls = <<>> THEN <<>>
                             ELSE <<Ev("usage", client.access_token)>>]
    IN  IF f.out.raised
        THEN [frame EXCEPT !.pc = "h_error", !.exc = f.out.err]
        ELSE [frame EXCEPT !.pc = "r_set_usage"]

\* The application after run() has brought the window up: the poll thread
\* in its first sleep, the tk thread in its loop, and "Refresh Now" chosen.
Refreshing(configs, answers) ==
    /\ ApiIdle
    /\ \E c \in configs, a \in answers :
         /\ config = c
         /\ th = [t \in Threads |->
                    IF t = 0 THEN [Frame0 EXCEPT !.pc = "s_initial_sleep"]
                    ELSE IF t = 1 THEN AfterCall(c, a)
                    ELSE [Frame0 EXCEPT !.pc = "absent"]]
    /\ usage = None
    /\ error = None
    /\ running = TRUE
    /\ now = Now0
    /\ main = [pc |-> "m_drain", exc |-> NoError]
    /\ ov_root = TRUE
    /\ ov_window = "alive"
    /\ ov_ready = TRUE
    /\ ov_canvas = TRUE
    /\ ov_queue = <<>>
    /\ last_draw = None
    /\ flash_bars = NoFlash
    /\ flash_visible = TRUE
    /\ flash_critical = FALSE
    /\ flash_dismissed = NoFlash
    /\ ov_timers = <<>>
    /\ last_poll = NoPoll
    /\ stop_pc = "none"
    /\ stop_sleeps = 0
    /\ applied = NoneApplied
    /\ ret = NoCall
    /\ dialog = NoDialog
    /\ creds_file = NoFile("missing")

AlertInit == Refreshing(AlertConfigs, AlertAnswers)

AlertNext ==
    \/ MainDrain
    \/ MainUpdate
    \/ MainFinally
    \/ MainRunFinally
    \/ RefreshSetUsage(1)
    \/ RefreshSetError(1)
    \/ RefreshPct(1)
    \/ RefreshLog(1)
    \/ RefreshUpdateUnified(1)
    \/ RefreshUpdateSingle(1)
    \/ RefreshFlash(1)
    \/ HandlerError(1)
    \/ HandlerUsage(1)
    \/ HandlerFlash(1)

SpecAlert == AlertInit /\ [][AlertNext]_vars

(***************************************************************************)
(* The end of one _refresh (started by "Refresh Now" or by a save in the   *)
(* settings dialog) on an overlay that a producer has fed with lists of    *)
(* flags through schedule_flash before the poll ends, so that windows      *)
(* blink while it ends.                                                    *)
(***************************************************************************)
SuppressConfigs ==
    {Config("api_key", "sk-key", "", "", 0, 60),
     Config("api_key", "", "", "", 0, 60),
     Config("oauth", "", "tok", "ref", Now0 + 3600, 60)}

SuppressAnswers ==
    {ConnectionError,
     Response(200, "", Num(1000), Num(500), Absent),
     Response(200, "", Absent, Absent, Num(500))}

SuppressInit == Refreshing(SuppressConfigs, SuppressAnswers)

\* schedule_flash with a list, by a producer that is done before the poll.
EarlierFlash ==
    /\ InRefresh(1)
    /\ ProducerFlash

SuppressNext == AlertNext \/ EarlierFlash

SpecSuppress == SuppressInit /\ [][SuppressNext]_vars

(***************************************************************************)
(* The client alone: one check_usage call, for every client and every pair *)
(* of answers of the two endpoints.                                        *)
(***************************************************************************)
ENDPOINT_MODES == {"both", "count_tokens", "messages"}

ErrorAnswers ==
    {Response(s, b, Absent, Absent, Absent) :
        s \in {401, 403, 500, 404}, b \in {"", "other"}}
    \cup {Response(400, b, Absent, Absent, Absent) :
             b \in {"", "billing", "other", "non_string"}}

OkAnswers ==
    {Response(s, "", tl, tr, u5) :
        s \in {200, 429}, tl \in {Absent, Bad, Num(0), Num(1000)},
        tr \in {Num(50), Num(120)},
        u5 \in {Absent, Num(970), Num(1500), Num(-200)}}

\* Unified headers whose 7d values are above the 5h one, with a 7d_sonnet
\* utilization that is not a number and every reset present.
UnifiedAnswers ==
    {[Response(s, "", Absent, Absent, Num(500)) EXCEPT
         !.u7d = Num(1200), !.u7d_sonnet = Bad, !.r7d_sonnet = Num(1700900000)] :
        s \in {200, 429}}

Answers ==
    {ConnectionError, Timeout} \cup ErrorAnswers \cup OkAnswers
        \cup UnifiedAnswers

Clients ==
    {AnthropicClient(k, m, "api_key", "") : k \in {"", "sk-key"}, m \in ENDPOINT_MODES}
    \cup {AnthropicClient("", m, "oauth", t) : t \in {"", "tok"}, m \in ENDPOINT_MODES}

ApiInit ==
    /\ AppIdle(Config("api_key", "", "", "", 0, 60), FALSE)
    /\ api_client \in Clients
    /\ api_net \in [count_tokens : Answers, messages : Answers]
    /\ api_pc = "start"
    /\ api_last_error = NoError
    /\ api_out = Pending
    /\ api_calls = <<>>

ApiFrameNow == ApiFrame(api_pc, api_last_error, api_out, api_calls)

\* The call takes its next step.
ApiApply ==
    /\ LET f == api_step(ApiFrameNow, api_client, api_net)
       IN  /\ api_pc' = f.pc
           /\ api_last_error' = f.last_error
           /\ api_out' = f.out
           /\ api_calls' = f.calls
    /\ UNCHANGED <<api_client, api_net, appVars, main, th, ovVars, histVars,
                   credVars>>

ApiEnter ==
    /\ api_pc = "start"
    /\ ApiApply

ApiOAuth ==
    /\ api_pc = "oauth"
    /\ ApiApply

ApiCountTokens ==
    /\ api_pc = "count_tokens"
    /\ ApiApply

ApiMessages ==
    /\ api_pc = "messages"
    /\ ApiApply

ApiRaiseLast ==
    /\ api_pc = "tail"
    /\ ApiApply

ApiNext ==
    \/ ApiEnter
    \/ ApiOAuth
    \/ ApiCountTokens
    \/ ApiMessages
    \/ ApiRaiseLast

SpecClient == ApiInit /\ [][ApiNext]_vars

(***************************************************************************)
(* Claims about the client                                                 *)
(***************************************************************************)
NoUsageHeaders == ApiError("API did not return rate-limit headers")

\* An API-key call with a key, in the given mode, that has ended.
ApiKeyCallDone(mode) ==
    /\ api_pc = "done"
    /\ api_client.auth_mode = "api_key"
    /\ api_client.api_key # ""
    /\ api_client.endpoint_mode = mode

\* The endpoint returned a response (200 or 429) without rate-limit headers.
ReturnedNoHeaders(answer) ==
    /\ answer.kind = "response"
    /\ ~call_endpoint("api_key", answer).raised
    /\ ~has_ratelimit_headers(answer)

\* The endpoint returned a response (200 or 429) with the rate-limit headers.
ReturnedHeaders(answer) ==
    /\ answer.kind = "response"
    /\ ~call_endpoint("api_key", answer).raised
    /\ has_ratelimit_headers(answer)

\* What the endpoint's try block does with the answer.
Tried(answer) == try_endpoint(api_client, answer)

\* C8 as stated: in both mode, a count_tokens response without rate-limit
\* headers followed by a messages response with them always yields the
\* snapshot parsed from the messages response, and no error.
C8_Original ==
    (/\ ApiKeyCallDone("both")
     /\ ReturnedNoHeaders(api_net.count_tokens)
     /\ ReturnedHeaders(api_net.messages))
    => /\ ~api_out.raised
       /\ api_out.usage = parse_headers(api_net.messages).usage
       /\ api_out.usage # None

\* C8 amended: the same, when the messages response's token-limit header
\* parses to a nonzero integer; when it is 0 or not a number the call fails
\* with the "token limit is 0" error of _parse_headers.
C8_FallbackToMessages ==
    (/\ ApiKeyCallDone("both")
     /\ ReturnedNoHeaders(api_net.count_tokens)
     /\ ReturnedHeaders(api_net.messages))
    => IF hint(api_net.messages.tokens_limit) # 0
       THEN /\ ~api_out.raised
            /\ api_out.usage = parse_headers(api_net.messages).usage
            /\ api_out.usage.type = "UsageInfo"
            /\ api_calls = <<"count_tokens", "messages">>
       ELSE /\ api_out.raised
            /\ api_out.err =
                 ApiError("Rate-limit headers present but token limit is 0")

C8_Witness ==
    /\ ApiKeyCallDone("both")
    /\ ReturnedNoHeaders(api_net.count_tokens)
    /\ ReturnedHeaders(api_net.messages)
    /\ api_net.messages.status = 200
    /\ ~api_out.raised
    /\ api_out.usage.tokens_remaining = 50

\* C9: in count_tokens mode, a count_tokens response without rate-limit
\* headers makes the call fail with the no-usage-headers error, and the
\* messages endpoint is never requested.
C9_NoFallbackInCountTokensMode ==
    (/\ ApiKeyCallDone("count_tokens")
     /\ ReturnedNoHeaders(api_net.count_tokens))
    => /\ api_out.raised
       /\ api_out.err = NoUsageHeaders
       /\ api_calls = <<"count_tokens">>

C9_Witness ==
    /\ ApiKeyCallDone("count_tokens")
    /\ ReturnedNoHeaders(api_net.count_tokens)
    /\ ReturnedHeaders(api_net.messages)
    /\ api_out.raised

\* C10 as stated: error selection in API-key mode.  In both mode an error from
\* count_tokens does not end the call: messages is requested next; if
\* messages returns no headers the call fails with the count_tokens error
\* when there was one, else with no-usage-headers; an error of messages is
\* the error raised; in a single-endpoint mode the endpoint's own error is
\* raised unchanged.
C10_Original ==
    /\ (ApiKeyCallDone("both") /\ Tried(api_net.count_tokens).raised)
       => api_calls = <<"count_tokens", "messages">>
    /\ (/\ ApiKeyCallDone("both")
        /\ Tried(api_net.count_tokens).usage = None
        /\ ReturnedNoHeaders(api_net.messages))
       => /\ api_out.raised
          /\ api_out.err = IF Tried(api_net.count_tokens).raised
                           THEN Tried(api_net.count_tokens).err
                           ELSE NoUsageHeaders
    /\ (/\ ApiKeyCallDone("both")
        /\ Tried(api_net.count_tokens).usage = None
        /\ Tried(api_net.messages).raised)
       => api_out = Raised(Tried(api_net.messages).err)
    /\ (ApiKeyCallDone("messages") /\ Tried(api_net.messages).raised)
       => /\ api_out = Raised(Tried(api_net.messages).err)
          /\ api_calls = <<"messages">>
    /\ (ApiKeyCallDone("count_tokens") /\ Tried(api_net.count_tokens).raised)
       => /\ api_out = Raised(Tried(api_net.count_tokens).err)
          /\ api_calls = <<"count_tokens">>

\* The response an API-key call's snapshot was parsed from: the one of the
\* last endpoint requested.
SnapshotResponse ==
    IF api_calls[Len(api_calls)] = "count_tokens"
    THEN api_net.count_tokens ELSE api_net.messages

ApiKeySnapshot ==
    /\ api_pc = "done"
    /\ api_client.auth_mode = "api_key"
    /\ ~api_out.raised
    /\ api_out.usage # None

\* C11: a single-window snapshot parsed from a 429 response has
\* tokens_remaining = 0 and requests_remaining = 0 whatever its remaining
\* headers say; one parsed from a 200 response has the values of the
\* headers (limits and remaining counts) unchanged.
C11_ExhaustedOn429 ==
    ApiKeySnapshot =>
        LET resp == SnapshotResponse
            info == api_out.usage
        IN  /\ info.type = "UsageInfo"
            /\ info.tokens_limit = hint(resp.tokens_limit)
            /\ info.requests_limit = hint(resp.requests_limit)
            /\ resp.status = 429 =>
                  /\ info.tokens_remaining = 0
                  /\ info.requests_remaining = 0
            /\ resp.status = 200 =>
                  /\ resp.tokens_remaining.k = "num"
                        => info.tokens_remaining = resp.tokens_remaining.v
                  /\ resp.requests_remaining.k = "num"
                        => info.requests_remaining = resp.requests_remaining.v

\* A 429 response with tokens-remaining = 120 gave a snapshot with 0.
C11_Witness ==
    /\ ApiKeySnapshot
    /\ SnapshotResponse.status = 429
    /\ SnapshotResponse.tokens_remaining = Num(120)
    /\ api_out.usage.tokens_remaining = 0
    /\ api_out.usage.requests_remaining = 0

\* The error kinds of the client, by what the exception is.
ErrorKind(e) ==
    CASE e = NoError -> "none"
      [] e.cls # "ApiError" -> e.cls
      [] e.msg \in {"Invalid API key", "OAuth token invalid or expired"} ->
           "InvalidCredential"
      [] e.msg \in {"API key lacks permission", "OAuth token lacks permission"} ->
           "PermissionDenied"
      [] e.msg = "No API credits -- check Plans & Billing" -> "BillingExhausted"
      [] e.msg \in {"Bad request", "Bad request: <msg>"} -> "BadRequest"
      [] e.msg = "Anthropic server error (<status>)" -> "ServerError"
      [] e.msg \in {"Unexpected status <status>",
                    "Unexpected status <status>: <body>"} -> "UnexpectedStatus"
      [] OTHER -> "AfterStatusCheck"

\* The kind the status-code policy fixes for a response.
PolicyKind(resp) ==
    CASE resp.status = 401 -> "InvalidCredential"
      [] resp.status = 403 -> "PermissionDenied"
      [] resp.status = 400 ->
           IF resp.body = "billing" THEN "BillingExhausted" ELSE "BadRequest"
      [] resp.status \in {200, 429} -> "none"
      [] resp.status >= 500 -> "ServerError"
      [] OTHER -> "UnexpectedStatus"

\* A call that requested exactly one endpoint and got a response: the
\* endpoint and the response.
OneRequestAnswered ==
    /\ api_pc = "done"
    /\ Len(api_calls) = 1
    /\ api_net[api_calls[1]].kind = "response"

\* C12 as stated: for both protocols and both endpoints, a call whose one
\* request was answered with a status other than 200 and 429 fails with the
\* error kind the status fixes (400: billing-exhausted for a billing
\* message, bad-request for every other body), and a 200 or 429 response
\* raises no status error: the call goes on to the headers (a snapshot, or
\* an error raised after the status check).
C12_Original ==
    OneRequestAnswered =>
        LET resp == api_net[api_calls[1]]
        IN  IF resp.status \in {200, 429}
            THEN ErrorKind(api_out.err) \in {"none", "AfterStatusCheck"}
            ELSE /\ api_out.raised
                 /\ ErrorKind(api_out.err) = PolicyKind(resp)

OAuthCallDone ==
    /\ api_pc = "done"
    /\ api_client.auth_mode = "oauth"

\* The single-window data of a response: its four counts, the remaining
\* ones forced to 0 on a 429.
SingleWindowData(resp) ==
    UsageInfo(IF resp.status = 429 THEN 0 ELSE hint(resp.tokens_remaining),
              hint(resp.tokens_limit),
              IF resp.status = 429 THEN 0 ELSE hint(resp.requests_remaining),
              hint(resp.requests_limit), resp.tokens_reset)

\* The 3-window snapshot synthesized from single-window data: first
\* utilization 1 - percentage / 100, everything else 0.
Synthesized(resp) ==
    UnifiedUsageInfo(1000 - percentage(SingleWindowData(resp)), 0, 0, 0, 0, 0)

\* What C13 says of a response that passed the status check.
OAuthOutcomeFor(resp, limit_zero_fails) ==
    IF has_unified_headers(resp)
    THEN api_out = Returned(parse_unified_headers(resp))
    ELSE IF has_ratelimit_headers(resp)
    THEN IF limit_zero_fails /\ hint(resp.tokens_limit) = 0
         THEN api_out = Raised(ApiError(
                  "Rate-limit headers present but token limit is 0"))
         ELSE api_out = Returned(Synthesized(resp))
    ELSE /\ api_out.raised
         /\ api_out.err = ApiError("API did not return usage headers (OAuth)")

\* C13 as stated: an OAuth call issues exactly one messages request
\* whatever endpoint_mode is; a response with the unified headers gives the
\* snapshot parsed from them; one with only the single-window headers gives
\* the synthesized 3-window snapshot and no error; one with neither makes
\* the call fail.
C13_Original ==
    OAuthCallDone =>
        /\ api_calls = <<"messages">>
        /\ LET c == call_endpoint("oauth", api_net.messages)
           IN  IF c.raised THEN api_out = Raised(c.err)
               ELSE OAuthOutcomeFor(c.resp, FALSE)

\* C13 amended: the same for a client with an access token, except that
\* single-window headers whose token-limit is 0 or not a number make the
\* call fail with the "token limit is 0" error; a client without an access
\* token fails with "OAuth token not configured" and issues no request.
C13_OAuthOneMessagesRequest ==
    OAuthCallDone =>
        IF api_client.access_token = ""
        THEN /\ api_calls = <<>>
             /\ api_out = Raised(ApiError("OAuth token not configured"))
        ELSE /\ api_calls = <<"messages">>
             /\ LET c == call_endpoint("oauth", api_net.messages)
                IN  IF c.raised THEN api_out = Raised(c.err)
                    ELSE OAuthOutcomeFor(c.resp, TRUE)

\* Only single-window headers, 50 of 1000 tokens left: first utilization
\* 0.95, the rest 0, in count_tokens mode.
C13_Witness ==
    /\ OAuthCallDone
    /\ api_client.endpoint_mode = "count_tokens"
    /\ api_calls = <<"messages">>
    /\ api_net.messages.kind = "response"
    /\ api_net.messages.status = 200
    /\ ~has_unified_headers(api_net.messages)
    /\ api_net.messages.tokens_remaining = Num(50)
    /\ api_out = Returned(UnifiedUsageInfo(950, 0, 0, 0, 0, 0))

\* C14 as stated: every utilization of a snapshot returned by check_usage
\* lies in [0, 1] (0 .. 1000 thousandths), whatever the headers say.
C14_Original ==
    (/\ api_pc = "done"
     /\ ~api_out.raised
     /\ api_out.usage # None
     /\ api_out.usage.type = "UnifiedUsageInfo")
    => \A i \in 1..3 : utilizations(api_out.usage)[i] \in 0..1000

(***************************************************************************)
(* Claims about polling                                                    *)
(***************************************************************************)
\* check_usage of the poll that ended last returned a snapshot / raised.
LastPollGotSnapshot ==
    last_poll # NoPoll /\ last_poll.out # Pending /\ ~last_poll.out.raised

LastPollCallFailed ==
    last_poll # NoPoll /\ last_poll.out # Pending /\ last_poll.out.raised

NoPollInProgress == \A t \in Threads : ~InRefresh(t)

\* What the poll that ended last has recorded, had it run alone.
LastOutcome ==
    IF last_poll.exc = NoError
    THEN [usage |-> last_poll.out.usage, error |-> None]
    ELSE [usage |-> None, error |-> str_exc(last_poll.exc)]

\* C1: no exception leaves _refresh: no thread is ended by one, and the
\* poll that ended last returned.
C1_Original ==
    /\ \A t \in Threads : th[t].pc # "raised"
    /\ ~last_poll.escaped

\* C2: while running is true and credentials are configured, the poll
\* thread, once started, is still in its loop: no poll has ended it.
C2_Original ==
    (running /\ has_credentials(config) /\ th[0].pc # "unstarted")
        => th[0].pc \notin {"raised", "exit"}

\* C3: after a poll that got a snapshot while the overlay was accepting
\* messages, once the queue is drained, the overlay's flash state is the
\* classification of that snapshot.
C3_Original ==
    (LastPollGotSnapshot /\ last_poll.ready /\ NoPollInProgress
        /\ ov_queue = <<>> /\ main.pc \in {"m_drain", "m_update"})
        => LET cls == flash_state(percentage(last_poll.out.usage), config)
           IN  /\ any(flash_bars) = cls.active
               /\ flash_critical = cls.critical

\* C4: after a poll whose usage call failed, once the queue is drained,
\* neither BurnBarApp.usage nor the overlay's retained draw holds
\* utilizations.
C4_Original ==
    (LastPollCallFailed /\ NoPollInProgress /\ ov_queue = <<>>)
        => usage = None /\ last_draw = None

\* C5: when the poll thread and a manual poll have both finished, (usage,
\* error) is what the one that finished last recorded, and that is not an
\* error raised by reading a field the other poll had overwritten.
C5_Original ==
    (th[1].pc \in {"done", "raised"} /\ last_poll.t # -1 /\ NoPollInProgress)
        => /\ [usage |-> usage, error |-> error] = LastOutcome
           /\ last_poll.exc.cls # "AttributeError"

\* C6: when running becomes false during the inter-poll sleep, the poll
\* thread sleeps at most one more increment and starts no poll; and a new
\* pass of the loop begins only after max(10, poll_interval_seconds) * 10
\* increments.
C6_StopWithinOneIncrement ==
    /\ stop_pc \in {"s_interval", "s_for", "s_sleep"}
         => /\ th[0].pc \in {"s_interval", "s_for", "s_sleep", "s_while", "exit"}
            /\ stop_sleeps <= 1
    /\ (th[0].pc = "s_while" /\ th[0].interval > 0)
         => th[0].i = Max2(10, config.poll_interval_seconds) * 10

C6_Witness ==
    /\ stop_pc = "s_sleep"
    /\ stop_sleeps = 1
    /\ th[0].pc = "exit"
    /\ th[0].i > 10
    /\ config.poll_interval_seconds = 5
    /\ last_poll.t = 0

Started == main.pc \notin {"idle", "m_import", "m_start"}

Stopped == Started /\ ~running

PollLoopOver == th[0].pc \in {"exit", "raised"}

MainLoopOver == main.pc \in {"m_finally", "m_run_finally", "exited", "raised"}

\* C7: once running is false after run() has started it stays false,
\* whichever step assigns it again, and from then on the poll loop and the
\* overlay loop both come to an end.
C7_RunningLifecycle ==
    /\ [][Stopped => ~running']_vars
    /\ Stopped ~> (PollLoopOver /\ MainLoopOver)

\* _on_exit has set the flag and posted _shutdown, run()'s finally has set
\* it again, and both loops are over.
C7_Witness ==
    /\ Stopped
    /\ ov_queue # <<>>
    /\ Head(ov_queue) = ShutdownMsg
    /\ main.pc = "exited"
    /\ th[0].pc = "exit"
    /\ last_poll.t = 0

(***************************************************************************)
(* Claims about the credential lifecycle                                   *)
(***************************************************************************)
\* Thread t is in the part of _refresh that issues requests and writes
\* credentials, or at the statement right after it.
RequestPhase(t) == th[t].before # None

\* The poll of thread t started in OAuth mode with the stored token
\* expired, and a refresh token stored or not.
StartedExpired(t, with_refresh) ==
    /\ RequestPhase(t)
    /\ is_oauth_mode(config)
    /\ is_token_expired(th[t].before.expires_at, now)
    /\ (th[t].before.refresh # "") = with_refresh

HasEvent(t, name) == \E i \in 1..Len(th[t].log) : th[t].log[i].ev = name

ReloginError == ApiError("OAuth token expired -- re-login in Settings")

\* C15: in OAuth mode the expiry check comes before any usage request (a
\* poll that issued one either started with a token that is not expired or
\* refreshed and saved first); a poll that starts with the token expired
\* and no refresh token raises the re-authenticate error and has issued no
\* request, neither to the token endpoint nor to a usage endpoint.
C15_ReloginWithoutRequest ==
    \A t \in Threads :
        /\ (RequestPhase(t) /\ is_oauth_mode(config) /\ HasEvent(t, "usage"))
           => \/ ~is_token_expired(th[t].before.expires_at, now)
              \/ \E i, j \in 1..Len(th[t].log) :
                    /\ i < j
                    /\ th[t].log[i].ev = "save"
                    /\ th[t].log[j].ev = "usage"
        /\ StartedExpired(t, FALSE)
           => /\ th[t].pc = "h_error"
              /\ th[t].exc = ReloginError
              /\ th[t].log = <<>>

C15_Witness ==
    /\ StartedExpired(0, FALSE)
    /\ th[0].pc = "h_error"
    /\ th[0].exc = ReloginError
    /\ th[0].before.access = "tok"

\* The record of a poll that refreshed and went on: the token request with
\* the stored refresh token, the store, the save.
RefreshedLog(t) ==
    <<Ev("token", th[t].before.refresh), Ev("store", ""), Ev("save", "")>>

\* C16: a poll that starts in OAuth mode with the token expired and a
\* refresh token stored calls the token endpoint first, then stores the
\* new access token, refresh token and expiry in Config and saves, and only
\* then issues the usage request, which carries the new access token and
\* not the expired one.
C16_RefreshBeforeUsage ==
    \A t \in Threads :
        StartedExpired(t, TRUE) =>
            /\ th[t].pc = "r_call" => th[t].log = RefreshedLog(t)
            /\ HasEvent(t, "save") =>
                  /\ Tokens(config) =
                        refresh_access_token(th[t].before.refresh, now)
                  /\ config.oauth_access_token # th[t].before.access
                  /\ config.oauth_refresh_token # th[t].before.refresh
                  /\ ~is_token_expired(config.oauth_expires_at, now)
            /\ HasEvent(t, "usage") =>
                  /\ th[t].log = Append(RefreshedLog(t),
                                        Ev("usage", config.oauth_access_token))
                  /\ th[t].log[4].token # th[t].before.access

C16_Witness ==
    /\ StartedExpired(0, TRUE)
    /\ Len(th[0].log) = 4
    /\ th[0].log[1].ev = "token"
    /\ th[0].log[4] = Ev("usage", "tok-new")
    /\ th[0].before.access = "tok"

RefreshFailed == ApiError("Token refresh failed: <exc>")

\* C17 as stated: a poll that raised the 'Token refresh failed' error has
\* issued no usage request, and the three credential fields of Config are
\* what they were when the poll started.
C17_Original ==
    \A t \in Threads :
        (RequestPhase(t) /\ th[t].pc = "h_error" /\ th[t].exc = RefreshFailed)
        => /\ ~HasEvent(t, "usage")
           /\ Tokens(config) = th[t].before

(***************************************************************************)
(* Claims about the credential functions                                   *)
(***************************************************************************)
\* C18: is_token_expired(expires_at) is true if and only if
\* expires_at <= 0 or now >= expires_at - 300.
C18_ExpiredIff ==
    ret.fn = "is_token_expired" =>
        (ret.out = TRUE <=>
            \/ ret.args.expires_at <= 0
            \/ ret.args.now >= ret.args.expires_at - 300)

\* The two sides of the boundary: at now = 300, expiry 600 is expired and
\* expiry 601 is not.
C18_Witness ==
    /\ ret.fn = "is_token_expired"
    /\ ret.args.now = 300
    /\ \/ ret.args.expires_at = 600 /\ ret.out = TRUE
       \/ ret.args.expires_at = 601 /\ ret.out = FALSE

\* The cache holds nothing the import can use: no file, no readable JSON,
\* no object with an accessToken member where the loader looks for one, or
\* an expiresAt that is not a number.
NoAccessToken(file) ==
    \/ file.kind # "json"
    \/ file.shape \in {"not_object", "other"}
    \/ file.entry.j # "object"
    \/ file.entry.accessToken.k = "absent"

Unusable(file) ==
    \/ NoAccessToken(file)
    \/ file.entry.expiresAt.k \in {"null", "str"}

\* C19 as stated: load_claude_code_credentials never raises and gives
\* None for a cache without an access token; the startup auto-import never
\* raises, and with an unusable cache it finds no credentials and leaves
\* Config as it was.
C19_Original ==
    /\ (ret.fn = "load_claude_code_credentials" /\ NoAccessToken(ret.args))
       => /\ ~ret.out.raised
          /\ ret.out.value = None
    /\ main.pc # "crashed"
    /\ (ret.fn = "_try_auto_import_claude_code" /\ Unusable(ret.args.file))
       => /\ ~ret.out.raised
          /\ ~ret.out.found
          /\ config = ret.args.config

\* The expiresAt of a cache file as the import reads it: 0 when absent.
ExpiresAtOf(file) ==
    IF file.entry.expiresAt.k = "absent" THEN Limbs(0, 0, 0, 0, 0)
    ELSE file.entry.expiresAt.v

\* What C20 says of expiresAt = x: int(x / 1000) above 1e12, x itself at
\* or below 1e12.
NormalizedExpiry(x) ==
    IF Greater(x, E12)
    THEN [i \in 1..5 |-> IF i = 1 THEN 0 ELSE x[i - 1]]
    ELSE x

\* The cache holds credentials with a numeric (or no) expiresAt.
Importable(file) ==
    /\ ~Unusable(file)
    /\ file.shape \in {"default", "flat", "provider"}

ImportCalls == {"_try_auto_import_claude_code", "_import_claude_code"}

\* C20: both imports (the auto-import at startup and the Import action of
\* the settings dialog) store expiresAt / 1000, truncated, for an
\* expiresAt above 1e12 and the value unchanged for one at or below 1e12.
C20_MillisecondsToSeconds ==
    (ret.fn \in ImportCalls /\ Importable(ret.args.file))
    => /\ ~ret.out.raised
       /\ ret.out.expires_at = NormalizedExpiry(ExpiresAtOf(ret.args.file))
       /\ config.oauth_expires_at = Stored(ret.out.expires_at)

\* 1.8e12 milliseconds was stored as 1.8e9 seconds by the auto-import.
C20_Witness ==
    /\ ret.fn = "_try_auto_import_claude_code"
    /\ main.pc = "m_start"
    /\ ret.args.file.entry.expiresAt = JNum(Limbs(1, 800, 0, 0, 0))
    /\ ret.args.config.oauth_access_token = ""
    /\ config.oauth_access_token = "tok-cc"
    /\ config.oauth_expires_at = 1800000000

(***************************************************************************)
(* Claims about the overlay's flash state                                  *)
(***************************************************************************)
\* The tk thread's last call was _set_flash(fb, c) for a list fb.
FlashApplied == applied.fn = "_set_flash"

\* C23: a flash update that marks an active window inactive leaves its
\* dismissed flag false, whatever it was; one that keeps an active window
\* active leaves its dismissed flag as it was; and one that marks an
\* inactive window active leaves it active and not dismissed: it blinks.
C23_DismissedClearedOnInactive ==
    FlashApplied =>
        \A i \in 1..3 :
            /\ (applied.bars[i] /\ ~applied.msg.fb[i]) => ~flash_dismissed[i]
            /\ (applied.bars[i] /\ applied.msg.fb[i])
                 => flash_dismissed[i] = applied.dismissed[i]
            /\ (~applied.bars[i] /\ applied.msg.fb[i])
                 => flash_bars[i] /\ ~flash_dismissed[i]

\* Window 1 was dismissed while active and window 2 was neither; the update
\* marked window 1 inactive and window 2 active.
C23_Witness ==
    /\ FlashApplied
    /\ applied.bars = <<TRUE, FALSE, FALSE>>
    /\ applied.dismissed = <<TRUE, FALSE, FALSE>>
    /\ applied.msg.fb = NoFlash
    /\ flash_dismissed = NoFlash
    /\ flash_bars = NoFlash

\* The flash update applied last found no window active and marks at least
\* one active, on an overlay whose window exists.
FlashStarted ==
    /\ FlashApplied
    /\ applied.root
    /\ ~any(applied.bars)
    /\ any(applied.msg.fb)

\* C24: once a flash update that moves the overlay from no window active
\* to some window active has been applied, the blink phase is visible, and
\* one timer is pending, 500 ms ahead if the update is critical and 1000 ms
\* otherwise.
C24_Original ==
    FlashStarted =>
        /\ flash_visible
        /\ ov_timers = Append(applied.timers,
                              IF applied.msg.c THEN 500 ELSE 1000)

\* C30: a flash update that moves the overlay from some window active to
\* none leaves the blink phase visible; the phase is visible whenever no
\* window is active; and a timer callback that finds no window active
\* leaves the phase alone and sets no new timer: its chain is over.
C30_VisibleWhenInactive ==
    /\ (FlashApplied /\ any(applied.bars) /\ ~any(applied.msg.fb))
         => flash_visible
    /\ ~any(flash_bars) => flash_visible
    /\ (applied.fn = "_flash_tick" /\ ~any(applied.bars))
         => /\ flash_visible = applied.visible
            /\ Len(ov_timers) = Len(applied.timers) - 1

\* The one pending timer fired after the windows had become inactive, with
\* the window still up: the phase stayed visible and no timer is left.
C30_Witness ==
    /\ applied.fn = "_flash_tick"
    /\ applied.root
    /\ ~any(applied.bars)
    /\ applied.timers = <<1000>>
    /\ ov_timers = <<>>
    /\ flash_visible
    /\ main.pc = "m_drain"

(***************************************************************************)
(* Claims about the update queue and the shutdown                          *)
(***************************************************************************)
\* C29: once stop() has been called, no posted update or flash message is
\* applied to an overlay that _shutdown has torn down, and update() is not
\* invoked on the root after the teardown.
C29_Original ==
    /\ applied.fn \in {"_draw", "_set_flash"} => applied.root
    /\ main.exc # AttributeError("update")

\* C27: the queue is first in, first out: a thread's call only appends its
\* message, the tk thread takes only the oldest message, removes it and
\* runs exactly that one; the drain goes on to update() only when the queue
\* is empty, and on an empty queue it goes on at once.
C27_FifoBoundedDrain ==
    [][/\ ov_queue' # ov_queue =>
            \/ /\ ov_queue' # <<>>
               /\ ov_queue = SubSeq(ov_queue', 1, Len(ov_queue') - 1)
               /\ UNCHANGED applied
            \/ /\ ov_queue # <<>>
               /\ ov_queue' = Tail(ov_queue)
               /\ main.pc = "m_drain"
               /\ applied'.msg = Head(ov_queue)
       /\ (applied' # applied /\ applied'.msg # None) =>
            /\ ov_queue # <<>>
            /\ applied'.msg = Head(ov_queue)
            /\ ov_queue' = Tail(ov_queue)
       /\ (main.pc = "m_drain" /\ main'.pc = "m_update") => ov_queue = <<>>
       /\ (main.pc = "m_drain" /\ ov_queue = <<>> /\ main' # main) =>
            main'.pc = "m_update"
      ]_vars

\* A bar update and then a flash update were posted and both have been
\* run, the bar update first; the queue is empty and update() is next.
C27_Witness ==
    /\ FlashApplied
    /\ applied.root
    /\ last_draw # None
    /\ ov_queue = <<>>
    /\ main.pc = "m_update"

(***************************************************************************)
(* Claims about the remaining percentage and its classification            *)
(***************************************************************************)
\* The snapshot of the poll thread t is in, once its percentage is computed.
Classified(t) == th[t].pc \in {"r_update_unified", "r_update_single", "r_flash"}

\* C21: a poll that got a snapshot with remaining percentage pct classifies
\* it as active and critical when pct <= critical, active and not critical
\* when critical < pct <= red + 0.1, and inactive otherwise.
C21_FlashClassification ==
    \A t \in Threads : Classified(t) =>
        LET pct == th[t].pct
            critical == config.critical_threshold_pct * 10
            red == config.red_threshold_pct * 10
        IN  /\ pct = percentage(th[t].out.usage)
            /\ pct <= critical
                 => th[t].flash = [active |-> TRUE, critical |-> TRUE]
            /\ (critical < pct /\ pct <= red + 1)
                 => th[t].flash = [active |-> TRUE, critical |-> FALSE]
            /\ (critical < pct /\ red + 1 < pct)
                 => th[t].flash = [active |-> FALSE, critical |-> FALSE]

\* a snapshot with 5.1 % left under the thresholds 3 and 5: active, not
\* critical, by the 0.1 of tolerance alone.
C21_Witness ==
    /\ th[1].pc = "r_flash"
    /\ th[1].pct = 51
    /\ config.red_threshold_pct = 5
    /\ config.critical_threshold_pct = 3
    /\ th[1].flash = [active |-> TRUE, critical |-> FALSE]

\* C26: the remaining percentage of a snapshot is within [0, 100]: for a
\* single-window snapshot 100 when the limit is <= 0 and else
\* remaining / limit * 100 clamped, for a unified snapshot the complement
\* of the largest utilization, clamped.
C26_PercentageClamped ==
    \A t \in Threads :
        (th[t].pc = "r_log" \/ Classified(t)) =>
            LET u == th[t].out.usage
                pct == th[t].pct
            IN  /\ pct \in 0..1000
                /\ u.type = "UsageInfo" =>
                     IF u.tokens_limit <= 0
                     THEN pct = 1000
                     ELSE pct = Clamp((u.tokens_remaining * 1000)
                                          \div u.tokens_limit, 0, 1000)
                /\ u.type = "UnifiedUsageInfo" =>
                     \E used \in {u.utilization_5h, u.utilization_7d,
                                  u.utilization_7d_sonnet} :
                         /\ used >= u.utilization_5h
                         /\ used >= u.utilization_7d
                         /\ used >= u.utilization_7d_sonnet
                         /\ pct = Clamp(1000 - used, 0, 1000)

\* a unified snapshot whose 5h utilization is 1.5: 0 % left, not -50 %.
C26_Witness ==
    /\ th[1].pc = "r_log"
    /\ th[1].out.usage.type = "UnifiedUsageInfo"
    /\ th[1].out.usage.utilization_5h = 1500
    /\ th[1].pct = 0

\* C22: after a poll that got a unified snapshot while the overlay was
\* accepting messages, once the queue is drained, window i's alert is
\* active iff (1 - utilization_i) * 100 <= red + 0.1, each window by its
\* own utilization.
C22_Original ==
    (LastPollGotSnapshot /\ last_poll.out.usage.type = "UnifiedUsageInfo"
        /\ last_poll.ready /\ NoPollInProgress
        /\ ov_queue = <<>> /\ main.pc \in {"m_drain", "m_update"})
        => LET u == last_poll.out.usage
               red == config.red_threshold_pct * 10
           IN  flash_bars = <<1000 - u.utilization_5h <= red + 1,
                              1000 - u.utilization_7d <= red + 1,
                              1000 - u.utilization_7d_sonnet <= red + 1>>

(***************************************************************************)
(* Claims about polls without a snapshot                                   *)
(***************************************************************************)
\* No poll is running, the last one has ended, and the tk thread is in its
\* loop with the queue drained.
Settled ==
    /\ last_poll # NoPoll
    /\ NoPollInProgress
    /\ ov_queue = <<>>
    /\ main.pc \in {"m_drain", "m_update"}

\* C25, the alert: once a poll has ended with no credentials configured or
\* with a failed call, no window blinks.
C25_NoBlinking ==
    (Settled /\ (~has_credentials(config) \/ LastPollCallFailed))
        => flash_bars = NoFlash

\* C25, the report: missing credentials are reported as 'not set', a failed
\* call as an error string.
C25_Reported ==
    Settled =>
        /\ ~has_credentials(config)
             => get_status_lines(error, usage, config) = "not_set"
        /\ (has_credentials(config) /\ LastPollCallFailed)
             => get_status_lines(error, usage, config) = "error"

\* C25: whenever no credentials are configured or the latest poll failed,
\* no window blinks, also when a window was blinking before; missing
\* credentials are reported as 'not set' and a failed call as an error
\* string.
C25_Original == C25_NoBlinking /\ C25_Reported

(***************************************************************************)
(* Claims about the threads                                                *)
(***************************************************************************)
\* The alert and presentation state the tk thread owns.
OwnedState ==
    <<flash_bars, flash_critical, flash_dismissed, flash_visible, last_draw>>

\* C28: every step that changes _flash_bars, _flash_critical,
\* _flash_dismissed, _flash_visible or _last_draw is a step of the tk thread
\* in its loop; a step of a poll thread, scheduled or manual, changes none
\* of them, and of the overlay's state nothing but the queue.
C28_OnlyConsumerWrites ==
    [][/\ OwnedState' # OwnedState
            => main.pc \in {"m_drain", "m_update"} /\ th' = th
       /\ (\E t \in Threads : InRefresh(t) /\ th'[t] # th[t])
            => UNCHANGED <<ov_root, ov_window, ov_ready, ov_canvas, last_draw,
                           flash_bars, flash_visible, flash_critical,
                           flash_dismissed, ov_timers>>]_vars

\* the scheduled and a manual poll are both in _refresh, and the tk thread
\* has applied a draw one of them posted.
C28_Witness ==
    /\ InRefresh(0)
    /\ InRefresh(1)
    /\ applied.fn = "_draw"
    /\ last_draw = [k \in DOMAIN last_draw |-> applied.msg[k]]
    /\ last_draw # None

(***************************************************************************)
(* Claims about the blink timers and the dismissed flags                   *)
(***************************************************************************)
\* C38: at most one _flash_tick callback is pending at any time.
C38_Original == Len(ov_timers) <= 1

\* C39: between the callbacks of the tk thread, a window whose dismissed
\* flag is set is active.
C39_DismissedImpliesActive ==
    \A i \in 1..3 : flash_dismissed[i] => flash_bars[i]

\* a flash update found windows 1 and 2 dismissed and made window 2
\* inactive: window 1 alone is still dismissed.
C39_Witness ==
    /\ applied.fn = "_set_flash"
    /\ applied.dismissed = <<TRUE, TRUE, FALSE>>
    /\ flash_bars = <<TRUE, FALSE, FALSE>>
    /\ flash_dismissed = <<TRUE, FALSE, FALSE>>

\* C31: in every draw a dismissed window's fill has its threshold colour
\* whatever the blink phase, and an active window that is not dismissed has
\* its fill left out exactly when the phase is off (for a window whose fill
\* is at least a pixel wide); 'Dismiss Flash' leaves exactly the active
\* windows dismissed.
C31_DismissedKeepsColour ==
    /\ applied.drawn # NotDrawn =>
         \A i \in 1..3 :
            LET util == last_draw.u[i]
                colour == IF util >= last_draw.r THEN "red"
                          ELSE IF util >= last_draw.y THEN "yellow"
                          ELSE "green"
            IN  util * BarWidth >= 1000 =>
                  /\ flash_dismissed[i] => applied.drawn[i] = colour
                  /\ (flash_bars[i] /\ ~flash_dismissed[i]) =>
                        /\ ~flash_visible => applied.drawn[i] = "none"
                        /\ flash_visible => applied.drawn[i] = colour
    /\ applied.fn = "_menu_dismiss_flash" =>
         \A i \in 1..3 : flash_dismissed[i] <=> applied.bars[i]

\* a timer callback has drawn the off phase with windows 1 and 2 active and
\* window 1 dismissed: window 1 red, window 2 without fill.
C31_Witness ==
    /\ applied.fn = "_flash_tick"
    /\ ~flash_visible
    /\ flash_bars = <<TRUE, TRUE, FALSE>>
    /\ flash_dismissed = <<TRUE, FALSE, FALSE>>
    /\ applied.drawn = <<"red", "none", "green">>

(***************************************************************************)
(* Claims about the unified headers and the requests of one call           *)
(***************************************************************************)
\* The number a header holds: 0 when it is absent or not a number.
HeaderValue(h) == IF h.k = "num" THEN h.v ELSE 0

\* C32: the snapshot an OAuth call parses from unified headers has the 7d and 7d_sonnet
\* utilizations and the three resets of the headers, on a 200 and on a 429
\* alike; its 5h utilization is the header's on a 200, and on a 429 the
\* header's when that is at least 1.0 and 1.0 otherwise.
C32_OnlyFiveHourForced ==
    (OAuthCallDone /\ api_client.access_token # ""
        /\ api_net.messages.kind = "response"
        /\ api_net.messages.status \in {200, 429}
        /\ has_unified_headers(api_net.messages))
        => LET resp == api_net.messages
               u == api_out.usage
           IN  /\ ~api_out.raised
               /\ u.utilization_7d = HeaderValue(resp.u7d)
               /\ u.utilization_7d_sonnet = HeaderValue(resp.u7d_sonnet)
               /\ u.reset_5h = HeaderValue(resp.r5h)
               /\ u.reset_7d = HeaderValue(resp.r7d)
               /\ u.reset_7d_sonnet = HeaderValue(resp.r7d_sonnet)
               /\ resp.status = 200
                    => u.utilization_5h = HeaderValue(resp.u5h)
               /\ resp.status = 429
                    => /\ u.utilization_5h >= 1000
                       /\ u.utilization_5h \in {1000, HeaderValue(resp.u5h)}

\* a 429 whose 5h header says 0.5 and whose 7d header says 1.2: 1.0 and 1.2.
C32_Witness ==
    /\ OAuthCallDone
    /\ api_net.messages \in UnifiedAnswers
    /\ api_net.messages.status = 429
    /\ ~api_out.raised
    /\ api_out.usage.utilization_5h = 1000
    /\ api_out.usage.utilization_7d = 1200
    /\ api_out.usage.utilization_7d_sonnet = 0

\* The count_tokens request gives a snapshot: it passes the status check
\* and has a tokens-limit header that parses to a nonzero integer.
CountTokensSucceeds ==
    LET c == call_endpoint("api_key", api_net.count_tokens)
    IN  ~c.raised /\ has_ratelimit_headers(c.resp)
            /\ hint(c.resp.tokens_limit) # 0

NoRepeat ==
    \A i, j \in DOMAIN api_calls : api_calls[i] = api_calls[j] => i = j

\* C33 as stated: a call that has ended has issued at most one request to
\* each endpoint; an API-key call in both mode requested count_tokens first
\* and messages only when count_tokens gave no snapshot; an API-key call in
\* count_tokens or messages mode issued exactly one request.
C33_Original ==
    api_pc = "done" =>
        /\ NoRepeat
        /\ (api_client.auth_mode = "api_key"
              /\ api_client.endpoint_mode = "both")
             => /\ api_calls \in {<<"count_tokens">>,
                                  <<"count_tokens", "messages">>}
                /\ CountTokensSucceeds => api_calls = <<"count_tokens">>
        /\ (api_client.auth_mode = "api_key"
              /\ api_client.endpoint_mode \in {"count_tokens", "messages"})
             => Len(api_calls) = 1

\* C33, amended: the same for a call with its credential configured (an
\* API key, or in OAuth mode an access token), a pinned mode requesting its
\* own endpoint and OAuth requesting messages; a call without its
\* credential issues no request at all.
C33_NoRepeatedRequest ==
    api_pc = "done" =>
        /\ NoRepeat
        /\ ApiKeyCallDone("both")
             => /\ api_calls \in {<<"count_tokens">>,
                                  <<"count_tokens", "messages">>}
                /\ CountTokensSucceeds => api_calls = <<"count_tokens">>
        /\ ApiKeyCallDone("count_tokens") => api_calls = <<"count_tokens">>
        /\ ApiKeyCallDone("messages") => api_calls = <<"messages">>
        /\ (api_client.auth_mode = "oauth" /\ api_client.access_token # "")
             => api_calls = <<"messages">>
        /\ (api_client.auth_mode = "api_key" /\ api_client.api_key = "")
             => api_calls = <<>>
        /\ (api_client.auth_mode = "oauth" /\ api_client.access_token = "")
             => api_calls = <<>>

\* both mode: count_tokens answered without rate-limit headers, so messages
\* was requested, once, and gave the snapshot.
C33_Witness ==
    /\ ApiKeyCallDone("both")
    /\ ~CountTokensSucceeds
    /\ api_calls = <<"count_tokens", "messages">>
    /\ ~api_out.raised

(***************************************************************************)
(* Claims about the credential cache and the settings dialog               *)
(***************************************************************************)
\* The cache is a JSON object with an access token at top level or in a
\* member that is an object.
CarriesAccessToken(file) ==
    /\ file.kind = "json"
    /\ \/ file.shape \in {"default_and_flat", "default_and_provider"}
       \/ /\ file.shape \in {"default", "flat", "provider"}
          /\ file.entry.j = "object"
          /\ file.entry.accessToken.k # "absent"

\* C35: for a cache that is a JSON object with an access token at top level
\* or inside a nested object, load_claude_code_credentials returns an
\* object holding an access token.
C35_Original ==
    (ret.fn = "load_claude_code_credentials" /\ CarriesAccessToken(ret.args))
        => /\ ~ret.out.raised
           /\ ret.out.value # None
           /\ ret.out.value.accessToken.k # "absent"

(***************************************************************************)
(* Claims about overlapping polls                                          *)
(***************************************************************************)
\* Poll t, still in its request phase, has called refresh_access_token
\* with the refresh token x.
Submitted(t, x) ==
    \E i \in DOMAIN th[t].log : th[t].log[i] = Ev("token", x)

\* C37: the scheduled poll and a manual poll never both submit the same
\* refresh token to the token endpoint.
C37_Original ==
    \A i \in DOMAIN th[1].log :
        th[1].log[i].ev = "token" => ~Submitted(0, th[1].log[i].token)

\* C36: while a poll is between its schedule_update and its schedule_flash,
\* no other poll puts a message on the queue, so that the two messages of
\* one poll are applied one after the other.
C36_Original ==
    [][\A t \in Threads :
          (th[t].pc = "r_flash" /\ th'[t] = th[t]
             /\ Len(ov_queue') = Len(ov_queue) + 1)
            => ov_queue'[Len(ov_queue')].fn \notin {"_draw", "_set_flash"}]_vars

(***************************************************************************)
(* Claims about the settings dialog                                        *)
(***************************************************************************)
\* C34: whatever saves the dialog has accepted, the thresholds of Config
\* satisfy yellow > red > critical.
C34_Original ==
    /\ config.yellow_threshold_pct > config.red_threshold_pct
    /\ config.red_threshold_pct > config.critical_threshold_pct

\* The fields of Config the poll threads build their client from.
ReadByPolls(c) ==
    <<c.api_key, c.endpoint_mode, c.oauth_access_token,
      c.oauth_refresh_token, c.oauth_expires_at>>

\* C40: after a Save that was rejected and after a Cancel, the api_key,
\* endpoint_mode and OAuth token fields of Config are what they were when
\* the dialog was opened.
C40_Original ==
    dialog.last \in {"rejected", "cancel"}
        => ReadByPolls(config) = ReadByPolls(dialog.opened)

====
